---- MODULE Spec2Model ----
(***************************************************************************)
(* Pipe synchronisation of Meerschaum: Pipe.sync (Pipe/_sync.py) and the   *)
(* attributes of a Pipe it uses (Pipe/_Pipe.py), over an instance store    *)
(* that holds one table and one registration per canonical storage name.   *)
(*                                                                         *)
(* Time is counted in ticks, TicksPerMinute ticks to the minute.  A row is *)
(* a record [dt, val]; NaN is the missing value of a cell.  A DataFrame is *)
(* a sequence of rows: its index is the position (a RangeIndex).           *)
(***************************************************************************)
EXTENDS Integers, Sequences, FiniteSets, TLC

VARIABLES
    pipe,       \* pipe[p]: the Pipe object thread p calls sync on
    call,       \* call[p]: the sync call of thread p (position, locals, result)
    tables,     \* tables[conn][name]: the table of that name on an SQL connector
    registry,   \* registry[conn][id]: the pipe of that identity is registered there
    threads,    \* the threads that call sync
    ncalls,     \* sync calls made so far
    nm,         \* the Pipe whose name is computed, and the name (naming behaviours)
    reads,      \* reads[p]: the reads of pipe[p].sync_time so far, and the last one
    handles,    \* handles[p]: the reads of pipe[p].connector and
                \* pipe[p].instance_connector so far, and the last of each
    bt,         \* bt[p]: the calls of pipe[p].get_backtrack_data so far, and
                \* what the last one was given and passed on
    sh,         \* the call of the action bash: its argument, its position, the
                \* subprocesses it spawned and what it returned
    py,         \* py[t]: where thread t is in attempt_import, activate_venv
                \* and deactivate_venv
    _locks,     \* _locks[name]: the owner of the RLock and how often it holds it
    active_venvs,   \* the set active_venvs
    sys_path    \* sys.path: the target paths of the venvs on it, first to last

\* the state of meerschaum.utils.packages
pkg == <<py, _locks, active_venvs, sys_path>>

\* the state outside meerschaum.utils.packages
rest == <<pipe, call, tables, registry, threads, ncalls, nm, reads, handles, bt, sh>>

vars == <<pipe, call, tables, registry, threads, ncalls, nm, reads, handles, bt, sh, pkg>>

---------------------------------------------------------------------------
(* Bounds of the model *)

MaxTime == 2
MaxVal == 1
MaxLen == 2
MaxCalls == 3
MaxConcCalls == 2
TicksPerMinute == 2
MaxKey == 2
MaxAttrCalls == 2
MaxReads == 2
MaxGets == 3
MaxMinutes == 1
MaxBtCalls == 2
MaxFrameOps == 2
MaxWords == 2
MaxNames == 1
MaxPyCalls == 2

Threads == {1, 2}
Times == 1..MaxTime
Vals == 1..MaxVal
Cols == {"dt", "val"}

\* the missing value of a cell (numpy NaN / SQL NULL)
NaN == 0

Rows == [dt : Times, val : Vals]

RECURSIVE SeqsUpTo(_, _)
SeqsUpTo(S, n) ==
    IF n = 0 THEN {<<>>}
    ELSE LET shorter == SeqsUpTo(S, n - 1)
         IN  shorter \cup {Append(s, x) : s \in {t \in shorter : Len(t) = n - 1}, x \in S}

\* the DataFrames a caller supplies or a source yields: at least one row
DataFrames == SeqsUpTo(Rows, MaxLen) \ {<<>>}

---------------------------------------------------------------------------
(* Strings are sequences of characters *)

RECURSIVE Replace(_, _, _)
Replace(s, old, new) ==
    IF s = <<>> THEN <<>>
    ELSE <<IF Head(s) = old THEN new ELSE Head(s)>> \o Replace(Tail(s), old, new)

ReplaceFirst(s, old, new) ==
    IF \E i \in DOMAIN s : s[i] = old
    THEN LET k == CHOOSE i \in DOMAIN s : s[i] = old /\ \A j \in 1..(i - 1) : s[j] # old
         IN  [i \in DOMAIN s |-> IF i = k THEN new ELSE s[i]]
    ELSE s

\* Python's None where a string is expected: no string, as it is no sequence
\* of characters
None == <<"None">>

\* __str__ replacing the first ':' only
StrNameFirst(o) ==
    LET name == ReplaceFirst(o.connector_keys, ":", "_") \o <<"_">> \o o.metric_key
    IN  IF o.location_key # None THEN name \o <<"_">> \o o.location_key ELSE name

\* Pipe.__str__: the name of the Pipe's table
StrName(o) ==
    LET name == Replace(o.connector_keys, ":", "_") \o <<"_">> \o o.metric_key
    IN  IF o.location_key # None THEN name \o <<"_">> \o o.location_key ELSE name

\* the identity of a Pipe: what the constructor is given
Identity(o) == <<o.connector_keys, o.metric_key, o.location_key>>

---------------------------------------------------------------------------
(* The Pipe object and its environment *)

\* what parse_connector_keys resolves connector_keys to: the type of the
\* source connector, "none" when it does not resolve
ConnTypes == {"none", "sql", "mqtt"}

\* what parse_instance_keys resolves instance_keys to
InstKeys == {"none", "api:main", "sql:main", "sql:other"}
SqlConns == {"sql:main", "sql:other"}

InstType(keys) ==
    IF keys = "none" THEN "none" ELSE IF keys = "api:main" THEN "api" ELSE "sql"

\* the flavors the connector sql:main may be configured with
Flavors == {"timescaledb", "postgresql", "mssql", "mysql", "mariadb", "sqlite"}

SqlKeys == <<"s", "q", "l", ":", "m", "a", "i", "n">>
CpuKey == <<"c", "p", "u">>
Server1Key == <<"s", "e", "r", "v", "e", "r", "1">>
ApiKeys == <<"a", "p", "i", ":", "p", "r", "o", "d">>
MemKey == <<"m", "e", "m">>

\* parameters['fetch']['backtrack_minutes'] of a Pipe that does not declare it
Undeclared == -1

\* Pipe.__init__: the attributes set by the constructor; the cached ones
\* (_id, _sync_time, _connector, _instance_connector) are not set:
\* _sync_time = NaN stands for no attribute, as the property never leaves a
\* None there.  connector and instance_keys tell what the keys resolve to at
\* present, backtrack_minutes what parameters['fetch'] declares.  has_columns tells that
\* self.columns is not None, has_datetime that it holds 'datetime'
NewPipe(ck, mk, lk, conn, inst, dtcol) ==
    [connector_keys |-> ck, metric_key |-> mk, location_key |-> lk,
     connector |-> conn, instance_keys |-> inst,
     has_columns |-> TRUE, has_datetime |-> dtcol,
     _id |-> "unset", _sync_time |-> NaN,
     _connector |-> "unset", _instance_connector |-> "unset",
     backtrack_minutes |-> Undeclared]

\* Pipe.id using whatever _id holds, None too
IdCachedFalsy(o) == o._id # "unset"

\* Pipe.id: get_pipe_id is asked unless a truthy _id is cached
IdCached(o) == o._id = "id"

\* instance_connector.get_pipe_id: the id of a registered pipe, else None
GetPipeId(reg, o) ==
    IF reg[o.instance_keys][Identity(o)] THEN "id" ELSE "None"

---------------------------------------------------------------------------
(* DataFrames *)

Min(S) == CHOOSE x \in S : \A y \in S : x <= y
Max(S) == CHOOSE x \in S : \A y \in S : x >= y

\* round_time(dt, to = 'down'): the whole minute at or before dt
RoundTimeDown(t) == t - (t % TicksPerMinute)

\* lines 75-80 without the minute taken off
BeginNoMargin(df) ==
    RoundTimeDown(Min({df[i].dt : i \in DOMAIN df}))

\* the begin of the window sync reads back: the oldest new timestamp, rounded
\* down, minus one minute
Begin(df) ==
    RoundTimeDown(Min({df[i].dt : i \in DOMAIN df})) - TicksPerMinute

\* instance_connector.get_backtrack_data: the stored rows from begin on, less
\* backtrack_minutes, in the order of the table
InstGetBacktrackData(rows, backtrack_minutes, begin) ==
    SelectSeq(rows, LAMBDA r :
        r.dt # NaN /\ r.dt >= begin - backtrack_minutes * TicksPerMinute)

\* df.isin(other) for a DataFrame other: a cell is in other when other has
\* the cell's index label and column and holds the same value there
Isin(df, other) ==
    [i \in DOMAIN df |-> [c \in Cols |-> i \in DOMAIN other /\ df[i][c] = other[i][c]]]

\* df[mask] for a boolean DataFrame mask: the cells where mask is false
\* become NaN
Where(df, mask) ==
    [i \in DOMAIN df |-> [c \in Cols |-> IF mask[i][c] THEN df[i][c] ELSE NaN]]

NotMask(mask) == [i \in DOMAIN mask |-> [c \in Cols |-> ~mask[i][c]]]

\* line 88 without dropna
DropnaNone(df) == df

\* dropna(how = 'all'): the rows that hold a value in some column
DropnaAll(df) == SelectSeq(df, LAMBDA r : \E c \in Cols : r[c] # NaN)

\* new_data_df: the data not seen before
NewData(df, backtrack_df) ==
    DropnaAll(Where(df, NotMask(Isin(df, backtrack_df))))

\* to_sql(df, if_exists = 'append'): the table is created when absent
ToSql(table, df) == [exists |-> TRUE, rows |-> table.rows \o df]

\* instance_connector.get_sync_time: the latest timestamp stored, NaN for none
InstGetSyncTime(table) ==
    LET ts == {table.rows[i].dt : i \in DOMAIN table.rows} \ {NaN}
    IN  IF ts = {} THEN NaN ELSE Max(ts)

\* Pipe.get_sync_time
GetSyncTime(o, tbls) ==
    IF ~o.has_datetime \/ InstType(o.instance_keys) # "sql" THEN NaN
    ELSE InstGetSyncTime(tbls[o.instance_keys][StrName(o)])

\* lines 110-113 passing the argument on
BacktrackMinutesArg(o, backtrack_minutes) == backtrack_minutes

\* get_backtrack_data, lines 110-113: the backtrack_minutes the Pipe declares
\* take the place of the argument; the argument stays when the Pipe declares
\* none
BacktrackMinutes(o, backtrack_minutes) ==
    IF o.backtrack_minutes # Undeclared THEN o.backtrack_minutes ELSE backtrack_minutes

\* line 115 taking sync_time whatever begin is
BeginAlwaysSyncTime(given, begin, sync_time) ==
    [none |-> sync_time = NaN, value |-> sync_time]

\* get_backtrack_data, line 115: the begin passed on is the begin given, and
\* sync_time (None too) when none is given
BeginOrSyncTime(given, begin, sync_time) ==
    IF given THEN [none |-> FALSE, value |-> begin]
    ELSE [none |-> sync_time = NaN, value |-> sync_time]

---------------------------------------------------------------------------
(* Results of a call *)

Pending == [kind |-> "pending", ok |-> FALSE, msg |-> ""]
Tuple(ok, msg) == [kind |-> "tuple", ok |-> ok, msg |-> msg]
ReturnedNone == [kind |-> "None", ok |-> FALSE, msg |-> ""]
Raised(e) == [kind |-> "raise", ok |-> FALSE, msg |-> e]

Success == Tuple(TRUE, "Success")
NoConnector == Tuple(FALSE, "Cannot fetch without a connector")

\* what the remote instance's sync_pipe may answer
RemoteResults == {Success, Tuple(FALSE, "Failed to sync pipe")}

\* a thread that is not in a call.  Beside the locals of sync (df, datetime,
\* begin, backtrack_df, new_data_df) a call records what the properties speak
\* of: arg_none (no rows were given), trace (the calls made on the source and
\* the instance, in order), sync_pipe and sync_pipe_args (what sync_pipe was
\* given and answered), write_failed (a write reported a failure), rows0 (the
\* rows of the table when sync was called), prev_df and prev_ok (the rows of
\* the thread's previous call, and whether that call synced them)
Idle ==
    [pc |-> "idle", arg_none |-> TRUE, df_none |-> TRUE, df |-> <<>>,
     datetime |-> "None", begin |-> 0,
     backtrack_df |-> <<>>, new_data_df |-> <<>>, trace |-> <<>>,
     result |-> Pending, sync_pipe |-> Pending,
     sync_pipe_args |-> [df_none |-> TRUE, df |-> <<>>],
     write_failed |-> FALSE, rows0 |-> <<>>, prev_df |-> <<>>, prev_ok |-> FALSE]

Table(o) == tables[o.instance_keys][StrName(o)]

Return(c, r) == [c EXCEPT !.pc = "done", !.result = r]
Called(c, f) == [c EXCEPT !.trace = Append(@, f)]

---------------------------------------------------------------------------
(* Pipe.sync, one action per step *)

\* the calls a behaviour makes: MaxCalls by one thread, MaxConcCalls by two
CallBound == IF Cardinality(threads) = 1 THEN MaxCalls ELSE MaxConcCalls

\* lines 32-34 without the test of the connector
EntryUnchecked(o, c) ==
    IF ~c.df_none THEN [c EXCEPT !.pc = "instance"] ELSE [c EXCEPT !.pc = "fetch"]

\* lines 32-35 fetching whether rows are given or not
EntryAlwaysFetch(o, c) ==
    IF o.connector = "none" THEN Return(c, NoConnector) ELSE [c EXCEPT !.pc = "fetch"]

\* lines 32-34: rows given are not fetched; no rows and no connector is a
\* failure
Entry(o, c) ==
    IF ~c.df_none THEN [c EXCEPT !.pc = "instance"]
    ELSE IF o.connector = "none" THEN Return(c, NoConnector)
    ELSE [c EXCEPT !.pc = "fetch"]

\* lines 12-34: the call, with the rows given (none = TRUE for no rows)
SyncCall(p, none, rows) ==
    /\ call[p].pc \in {"idle", "done"}
    /\ ncalls < CallBound
    /\ ncalls' = ncalls + 1
    /\ LET o == pipe[p]
           last == call[p]
           c == [Idle EXCEPT
                    !.arg_none = none, !.df_none = none, !.df = rows,
                    !.rows0 = IF InstType(o.instance_keys) = "sql"
                              THEN Table(o).rows ELSE <<>>,
                    !.prev_df = last.df,
                    !.prev_ok = /\ last.pc = "done"
                                /\ last.result = Success
                                /\ ~last.df_none
                                /\ ~last.write_failed
                                /\ last.sync_pipe = Pending]
       IN  call' = [call EXCEPT ![p] = Entry(o, c)]
    /\ UNCHANGED <<pipe, tables, registry, threads, nm, reads, handles, bt, sh, pkg>>

\* line 35: fetch yields rows
FetchRows(p) ==
    /\ call[p].pc = "fetch"
    /\ pipe[p].connector = "sql"
    /\ \E rows \in DataFrames :
        call' = [call EXCEPT ![p] =
            [Called(@, "fetch") EXCEPT !.pc = "instance", !.df_none = FALSE, !.df = rows]]
    /\ UNCHANGED <<pipe, tables, registry, threads, ncalls, nm, reads, handles, bt, sh, pkg>>

\* line 35: fetch yields None (an mqtt connector hands its rows to sync in
\* its callback, and yields none here)
FetchNone(p) ==
    /\ call[p].pc = "fetch"
    /\ call' = [call EXCEPT ![p] = [Called(@, "fetch") EXCEPT !.pc = "instance"]]
    /\ UNCHANGED <<pipe, tables, registry, threads, ncalls, nm, reads, handles, bt, sh, pkg>>

\* line 35: fetch fails; sync has no handler
FetchRaises(p) ==
    /\ call[p].pc = "fetch"
    /\ call' = [call EXCEPT ![p] = Return(Called(@, "fetch"), Raised("fetch"))]
    /\ UNCHANGED <<pipe, tables, registry, threads, ncalls, nm, reads, handles, bt, sh, pkg>>

\* line 38 on an instance connector that is None
InstanceNone(p) ==
    /\ call[p].pc = "instance"
    /\ InstType(pipe[p].instance_keys) = "none"
    /\ call' = [call EXCEPT ![p] = Return(@, Raised("AttributeError"))]
    /\ UNCHANGED <<pipe, tables, registry, threads, ncalls, nm, reads, handles, bt, sh, pkg>>

\* line 39 answering success whatever sync_pipe answered
DelegatedSuccess(r) == Success

\* line 39: sync returns what sync_pipe answered
Delegated(r) == r

\* lines 38-39: an API instance syncs the pipe itself
InstanceApi(p) ==
    /\ call[p].pc = "instance"
    /\ InstType(pipe[p].instance_keys) = "api"
    /\ \E r \in RemoteResults :
        call' = [call EXCEPT ![p] =
            Return([Called(@, "sync_pipe") EXCEPT
                        !.sync_pipe = r,
                        !.sync_pipe_args = [df_none |-> call[p].df_none,
                                            df |-> call[p].df]],
                   Delegated(r))]
    /\ UNCHANGED <<pipe, tables, registry, threads, ncalls, nm, reads, handles, bt, sh, pkg>>

\* Pipe.get_columns: the name of the column, None (with a warning) when the
\* parameters do not declare it
GetColumns(o, col) == IF o.has_datetime THEN col ELSE "None"

\* line 41: get_columns('datetime'); what it returns is not used
InstanceSql(p) ==
    /\ call[p].pc = "instance"
    /\ InstType(pipe[p].instance_keys) = "sql"
    /\ call' = [call EXCEPT ![p] =
            [Called(@, "get_columns") EXCEPT
                !.pc = "id", !.datetime = GetColumns(pipe[p], "datetime")]]
    /\ UNCHANGED <<pipe, tables, registry, threads, ncalls, nm, reads, handles, bt, sh, pkg>>

\* lines 44-45 registering whatever self.id is
IdAlwaysRegister(p) ==
    /\ call[p].pc = "id"
    /\ pipe' = [pipe EXCEPT ![p]._id = GetPipeId(registry, pipe[p])]
    /\ call' = [call EXCEPT ![p] = [Called(@, "get_pipe_id") EXCEPT !.pc = "register"]]
    /\ UNCHANGED <<tables, registry, threads, ncalls, nm, reads, handles, bt, sh, pkg>>

\* lines 44-45 never registering
IdNeverRegister(p) ==
    /\ call[p].pc = "id"
    /\ pipe' = [pipe EXCEPT ![p]._id = GetPipeId(registry, pipe[p])]
    /\ call' = [call EXCEPT ![p] = [Called(@, "get_pipe_id") EXCEPT !.pc = "rows"]]
    /\ UNCHANGED <<tables, registry, threads, ncalls, nm, reads, handles, bt, sh, pkg>>

\* line 103 keeping the answer in metric_key too
IdIntoMetricKey(p) ==
    /\ call[p].pc = "id"
    /\ LET id == GetPipeId(registry, pipe[p])
       IN  /\ pipe' = [pipe EXCEPT ![p]._id = id,
                    ![p].metric_key = IF id = "id" THEN <<"i", "d">> ELSE None]
           /\ call' = [call EXCEPT ![p] =
                   [Called(@, "get_pipe_id") EXCEPT
                       !.pc = IF id = "id" THEN "rows" ELSE "register"]]
    /\ UNCHANGED <<tables, registry, threads, ncalls, nm, reads, handles, bt, sh, pkg>>

\* line 44, self.id: a truthy _id that is cached is used, else the instance is
\* asked and what it answers is kept in _id
Id(p) ==
    /\ call[p].pc = "id"
    /\ IF IdCached(pipe[p])
       THEN /\ call' = [call EXCEPT ![p].pc = "rows"]
            /\ UNCHANGED pipe
       ELSE LET id == GetPipeId(registry, pipe[p])
            IN  /\ pipe' = [pipe EXCEPT ![p]._id = id]
                /\ call' = [call EXCEPT ![p] =
                        [Called(@, "get_pipe_id") EXCEPT
                            !.pc = IF id = "id" THEN "rows" ELSE "register"]]
    /\ UNCHANGED <<tables, registry, threads, ncalls, nm, reads, handles, bt, sh, pkg>>

\* line 45: register; what it returns is not used
Register(p) ==
    /\ call[p].pc = "register"
    /\ \E ok \in BOOLEAN :
        /\ registry' = [registry EXCEPT
                ![pipe[p].instance_keys][Identity(pipe[p])] = @ \/ ok]
        /\ call' = [call EXCEPT ![p] =
                [Called(@, "register") EXCEPT
                    !.pc = "rows", !.write_failed = @ \/ ~ok]]
    /\ UNCHANGED <<pipe, tables, threads, ncalls, nm, reads, handles, bt, sh, pkg>>

\* lines 49-56 returning success for every source
NoRowsSuccess(o) == Success

\* lines 49-56 returning None for every source
NoRowsNone(o) == ReturnedNone

\* lines 49-56: what sync returns when there are no rows: success for an
\* mqtt source, else (with a warning) None
NoRowsResult(o) == IF o.connector = "mqtt" THEN Success ELSE ReturnedNone

\* lines 49-56: no rows
NoRows(p) ==
    /\ call[p].pc = "rows"
    /\ call[p].df_none
    /\ call' = [call EXCEPT ![p] = Return(@, NoRowsResult(pipe[p]))]
    /\ UNCHANGED <<pipe, tables, registry, threads, ncalls, nm, reads, handles, bt, sh, pkg>>

\* the query of exists for a flavor; the flavors it does not name leave q
\* unbound
ExistsQuery(flavor) ==
    IF flavor \in {"timescaledb", "postgresql"} THEN "to_regclass"
    ELSE IF flavor = "mssql" THEN "OBJECT_ID"
    ELSE IF flavor \in {"mysql", "mariadb"} THEN "SHOW TABLES"
    ELSE "unbound"

\* lines 64 and 148-167: exists asks the connector sql:main
Exists(p) ==
    /\ call[p].pc = "rows"
    /\ ~call[p].df_none
    /\ \E flavor \in Flavors :
        call' = [call EXCEPT ![p] =
            IF ExistsQuery(flavor) = "unbound"
            THEN Return(Called(@, "exists"), Raised("UnboundLocalError"))
            ELSE [Called(@, "exists") EXCEPT
                    !.pc = IF tables["sql:main"][StrName(pipe[p])].exists
                           THEN "backtrack" ELSE "create"]]
    /\ UNCHANGED <<pipe, tables, registry, threads, ncalls, nm, reads, handles, bt, sh, pkg>>

\* lines 66-70: the empty table; what to_sql returns is not used
CreateTable(p) ==
    /\ call[p].pc = "create"
    /\ \E ok \in BOOLEAN :
        /\ tables' = [tables EXCEPT
                ![pipe[p].instance_keys][StrName(pipe[p])] =
                    IF ok THEN ToSql(@, <<>>) ELSE @]
        /\ call' = [call EXCEPT ![p] =
                [Called(@, "to_sql_create") EXCEPT
                    !.pc = "indices", !.write_failed = @ \/ ~ok]]
    /\ UNCHANGED <<pipe, registry, threads, ncalls, nm, reads, handles, bt, sh, pkg>>

\* line 72 going on to the append of all the rows: nothing is read back from
\* a table just created
CreateIndicesSkipRead(p) ==
    /\ call[p].pc = "indices"
    /\ \E ok \in BOOLEAN :
        call' = [call EXCEPT ![p] =
                [Called(@, "create_indices") EXCEPT
                    !.pc = "append", !.write_failed = @ \/ ~ok,
                    !.new_data_df = call[p].df]]
    /\ UNCHANGED <<pipe, tables, registry, threads, ncalls, nm, reads, handles, bt, sh, pkg>>

\* line 72: the indices; what create_indices returns is not used
CreateIndices(p) ==
    /\ call[p].pc = "indices"
    /\ \E ok \in BOOLEAN :
        call' = [call EXCEPT ![p] =
                [Called(@, "create_indices") EXCEPT
                    !.pc = "backtrack", !.write_failed = @ \/ ~ok]]
    /\ UNCHANGED <<pipe, tables, registry, threads, ncalls, nm, reads, handles, bt, sh, pkg>>

\* lines 75-80 without a datetime column: self.columns['datetime'] raises
BeginRaises(p) ==
    /\ call[p].pc = "backtrack"
    /\ ~pipe[p].has_datetime
    /\ call' = [call EXCEPT ![p] = Return(@, Raised("KeyError"))]
    /\ UNCHANGED <<pipe, tables, registry, threads, ncalls, nm, reads, handles, bt, sh, pkg>>

\* lines 75-89: begin, the stored rows from begin on, and the new rows
Backtrack(p) ==
    /\ call[p].pc = "backtrack"
    /\ pipe[p].has_datetime
    /\ LET begin == Begin(call[p].df)
           stored == InstGetBacktrackData(Table(pipe[p]).rows,
                        BacktrackMinutes(pipe[p], 0),
                        BeginOrSyncTime(TRUE, begin, NaN).value)
       IN  call' = [call EXCEPT ![p] =
                [Called(@, "get_backtrack_data") EXCEPT
                    !.pc = "append", !.begin = begin, !.backtrack_df = stored,
                    !.new_data_df = NewData(call[p].df, stored)]]
    /\ UNCHANGED <<pipe, tables, registry, threads, ncalls, nm, reads, handles, bt, sh, pkg>>

\* lines 92-97 with if_exists = 'replace'
WriteReplace(table, df) == [exists |-> TRUE, rows |-> df]

\* lines 92-97 appending only the rows the table does not hold yet
WriteUnseen(table, df) ==
    ToSql(table, SelectSeq(df, LAMBDA r : \A i \in DOMAIN table.rows : table.rows[i] # r))

\* lines 92-97: the table after to_sql(new_data_df, if_exists = 'append')
Write(table, df) == ToSql(table, df)

\* lines 92-98: the new rows are appended; what to_sql returns is not used
AppendNew(p) ==
    /\ call[p].pc = "append"
    /\ \E ok \in BOOLEAN :
        /\ tables' = [tables EXCEPT
                ![pipe[p].instance_keys][StrName(pipe[p])] =
                    IF ok THEN Write(@, call[p].new_data_df) ELSE @]
        /\ call' = [call EXCEPT ![p] =
                Return([Called(@, "to_sql_append") EXCEPT !.write_failed = @ \/ ~ok],
                       Success)]
    /\ UNCHANGED <<pipe, registry, threads, ncalls, nm, reads, handles, bt, sh, pkg>>

---------------------------------------------------------------------------
(* Pipe.sync_time and Pipe.get_sync_time *)

\* no read yet.  Of the last read: value (what it returned, NaN for None),
\* asked (it called get_sync_time of the instance connector), raised (it
\* raised instead of returning), cached (it returned the cached _sync_time)
NotRead == [n |-> 0, value |-> NaN, asked |-> FALSE, raised |-> FALSE, cached |-> FALSE]

\* lines 132-146 asking the instance connector whatever the columns are
DeclaresDatetimeUnchecked(o) == TRUE

\* get_sync_time, lines 132-144: the columns are there and hold 'datetime';
\* else it warns and returns None
DeclaresDatetime(o) == o.has_columns /\ o.has_datetime

\* what get_sync_time of the instance connector may answer: the latest
\* timestamp of the table of an SQL instance, whatever the remote instance
\* answers for an API instance
InstSyncTimes(o) ==
    IF InstType(o.instance_keys) = "sql" THEN {InstGetSyncTime(Table(o))}
    ELSE {NaN} \cup Times

\* line 108 finding no _sync_time ever
SyncTimeCachedNever(o) == FALSE

\* line 108: '_sync_time' is among the attributes of the object
SyncTimeCached(o) == o._sync_time # NaN

\* a read of pipe.sync_time: the cached value if there is one, else what
\* get_sync_time returns, which is cached unless it is None
SyncTimeRead(p) ==
    /\ call[p].pc \in {"idle", "done"}
    /\ reads[p].n < MaxReads
    /\ LET o == pipe[p]
           r == [NotRead EXCEPT !.n = reads[p].n + 1]
       IN  IF SyncTimeCached(o)
           THEN /\ reads' = [reads EXCEPT ![p] =
                        [r EXCEPT !.value = o._sync_time, !.cached = TRUE]]
                /\ UNCHANGED pipe
           ELSE IF ~DeclaresDatetime(o)
           THEN /\ reads' = [reads EXCEPT ![p] = r]
                /\ UNCHANGED pipe
           ELSE IF InstType(o.instance_keys) = "none"
           THEN /\ reads' = [reads EXCEPT ![p] = [r EXCEPT !.raised = TRUE]]
                /\ UNCHANGED pipe
           ELSE \E t \in InstSyncTimes(o) :
                /\ reads' = [reads EXCEPT ![p] = [r EXCEPT !.value = t, !.asked = TRUE]]
                /\ pipe' = [pipe EXCEPT ![p]._sync_time = t]
    /\ UNCHANGED <<call, tables, registry, threads, ncalls, nm, handles, bt, sh, pkg>>

---------------------------------------------------------------------------
(* Pipe.get_backtrack_data *)

\* no call yet.  Of the last call: given (a begin was given), arg_begin and
\* arg_minutes (the arguments), begin and backtrack_minutes (what the
\* instance connector was passed; begin.none tells of a None), sync_time
\* (what the read of self.sync_time returned, if it was read)
NotCalled ==
    [n |-> 0, given |-> FALSE, arg_begin |-> 0, arg_minutes |-> 0,
     begin |-> [none |-> TRUE, value |-> NaN], backtrack_minutes |-> 0,
     read |-> FALSE, sync_time |-> NaN]

\* the begins a caller gives: whole minutes and the ticks of the rows
Begins == {0 - TicksPerMinute, 0} \cup Times

\* line 115: what the read of self.sync_time may return on an SQL instance
SyncTimeOnSql(o) ==
    IF SyncTimeCached(o) THEN {o._sync_time}
    ELSE IF ~DeclaresDatetime(o) THEN {NaN}
    ELSE InstSyncTimes(o)

\* lines 100-122 on an SQL instance: a call of pipe.get_backtrack_data with
\* the arguments backtrack_minutes and begin (given = FALSE for no begin)
GetBacktrackData(p, backtrack_minutes, given, begin) ==
    /\ call[p].pc \in {"idle", "done"}
    /\ bt[p].n < MaxBtCalls
    /\ InstType(pipe[p].instance_keys) = "sql"
    /\ \E st \in IF given THEN {NaN} ELSE SyncTimeOnSql(pipe[p]) :
       LET o == pipe[p]
       IN  /\ bt' = [bt EXCEPT ![p] =
                    [n |-> bt[p].n + 1, given |-> given,
                     arg_begin |-> begin, arg_minutes |-> backtrack_minutes,
                     begin |-> BeginOrSyncTime(given, begin, st),
                     backtrack_minutes |-> BacktrackMinutes(o, backtrack_minutes),
                     read |-> ~given, sync_time |-> st]]
           /\ pipe' = [pipe EXCEPT ![p]._sync_time = IF given THEN @ ELSE st]
    /\ UNCHANGED <<call, tables, registry, threads, ncalls, nm, reads, handles, sh, pkg>>

---------------------------------------------------------------------------
(* Pipe.connector and Pipe.instance_connector *)

\* no read yet.  attr is the property read last.  Of the last read of each
\* of the two properties: value (the handle it returned, "none" for None,
\* "unset" before the first read) and parsed (it had the keys parsed)
NotGot ==
    [n |-> 0, attr |-> "unset",
     connector |-> [value |-> "unset", parsed |-> FALSE],
     instance_connector |-> [value |-> "unset", parsed |-> FALSE]]

\* lines 84-87 and 94-97 keeping whatever the parse answers
KeepAny(conn) == conn

\* lines 84-87 and 94-97: what the property keeps of the answer of the
\* parse: a handle, nothing for None
Keep(conn) == IF conn # "none" THEN conn ELSE "unset"

\* a read of pipe.connector
ConnectorGet(p) ==
    /\ handles[p].n < MaxGets
    /\ LET o == pipe[p]
       IN  IF o._connector # "unset"
           THEN /\ handles' = [handles EXCEPT ![p].n = @ + 1,
                        ![p].attr = "connector", ![p].connector = [value |-> o._connector, parsed |-> FALSE]]
                /\ UNCHANGED pipe
           ELSE /\ handles' = [handles EXCEPT ![p].n = @ + 1,
                        ![p].attr = "connector", ![p].connector = [value |-> o.connector, parsed |-> TRUE]]
                /\ pipe' = [pipe EXCEPT ![p]._connector = Keep(o.connector)]
    /\ UNCHANGED <<call, tables, registry, threads, ncalls, nm, reads, bt, sh, pkg>>

\* a read of pipe.instance_connector
InstanceConnectorGet(p) ==
    /\ handles[p].n < MaxGets
    /\ LET o == pipe[p]
       IN  IF o._instance_connector # "unset"
           THEN /\ handles' = [handles EXCEPT ![p].n = @ + 1,
                        ![p].attr = "instance_connector", ![p].instance_connector =
                            [value |-> o._instance_connector, parsed |-> FALSE]]
                /\ UNCHANGED pipe
           ELSE /\ handles' = [handles EXCEPT ![p].n = @ + 1,
                        ![p].attr = "instance_connector", ![p].instance_connector =
                            [value |-> o.instance_keys, parsed |-> TRUE]]
                /\ pipe' = [pipe EXCEPT ![p]._instance_connector = Keep(o.instance_keys)]
    /\ UNCHANGED <<call, tables, registry, threads, ncalls, nm, reads, bt, sh, pkg>>

\* the connectors known to the process change: connector_keys resolves to
\* something else from now on
ConnectorsChange(p) ==
    /\ \E conn \in ConnTypes \ {pipe[p].connector} :
            pipe' = [pipe EXCEPT ![p].connector = conn]
    /\ UNCHANGED <<call, tables, registry, threads, ncalls, nm, reads, handles, bt, sh, pkg>>

\* the same for instance_keys
InstancesChange(p) ==
    /\ \E inst \in InstKeys \ {pipe[p].instance_keys} :
            pipe' = [pipe EXCEPT ![p].instance_keys = inst]
    /\ UNCHANGED <<call, tables, registry, threads, ncalls, nm, reads, handles, bt, sh, pkg>>

---------------------------------------------------------------------------
(* The action bash *)

\* lines 11-20
banned_commands == {"rm", "wget", "rsync", "scp", "ssh", "curl", "ftp", "sftp"}

\* the elements of an action list: the banned commands, the empty string of
\* a call without arguments, and two that are not banned
Words == banned_commands \cup {"", "ls", "rm -rf"}

ActionLists == SeqsUpTo(Words, MaxWords)

\* " ".join(action), as the sequence of its pieces
RECURSIVE Join(_)
Join(action) ==
    IF Len(action) <= 1 THEN action
    ELSE <<Head(action), " ">> \o Join(Tail(action))

\* the message of line 51
InvalidCommand(a) == <<"Invalid command: ", a>>

\* lines 49-51 testing the first element only
HeadBanned(action) == IF action[1] \in banned_commands THEN 1 ELSE 0

\* lines 49-51: the position of the first element that is a banned command,
\* 0 when there is none
FirstBanned(action) ==
    LET banned == {i \in DOMAIN action : action[i] \in banned_commands}
    IN  IF banned = {} THEN 0 ELSE Min(banned)

\* bash(action) has been called and has not run yet
NotRun(action) ==
    [action |-> action, pc |-> "called", command_list |-> <<>>,
     capture_stdout |-> FALSE, timeout |-> FALSE, spawned |-> <<>>,
     killed |-> FALSE, result |-> Pending]

\* lines 31-51: the command list, and the test of the elements.  action[0]
\* of an empty list raises IndexError
BashCheck ==
    /\ sh.pc = "called"
    /\ LET action == sh.action
       IN  IF action = <<>>
           THEN sh' = [sh EXCEPT !.pc = "done", !.result = Raised("IndexError")]
           ELSE LET args == action[1] # ""
                    c == [sh EXCEPT
                            !.command_list = IF args
                                THEN <<"/bin/bash", "-c", Join(action)>>
                                ELSE <<"/bin/bash">>,
                            !.capture_stdout = args, !.timeout = args]
                    i == FirstBanned(action)
                IN  IF i # 0
                    THEN sh' = [c EXCEPT !.pc = "done",
                                    !.result = Tuple(FALSE, InvalidCommand(action[i]))]
                    ELSE sh' = [c EXCEPT !.pc = "popen"]
    /\ UNCHANGED <<pipe, call, tables, registry, threads, ncalls, nm, reads, handles, bt, pkg>>

\* lines 57-62: subprocess.Popen(command_list)
BashPopen ==
    /\ sh.pc = "popen"
    /\ sh' = [sh EXCEPT !.pc = "communicate", !.spawned = Append(@, sh.command_list)]
    /\ UNCHANGED <<pipe, call, tables, registry, threads, ncalls, nm, reads, handles, bt, pkg>>

\* lines 64-97: the process ends, or is killed at the timeout, with an exit
\* code; stdout is read when it was captured, stderr never is
BashCommunicate ==
    /\ sh.pc = "communicate"
    /\ \E exit_code \in {0, 1}, timed_out \in BOOLEAN :
        /\ timed_out => sh.timeout
        /\ LET output == IF sh.capture_stdout THEN <<"stdout">> ELSE <<"Success">>
           IN  sh' = [sh EXCEPT !.pc = "done", !.killed = timed_out,
                        !.result = IF exit_code # 0 THEN Tuple(FALSE, <<"Error">>)
                                   ELSE Tuple(TRUE, output)]
    /\ UNCHANGED <<pipe, call, tables, registry, threads, ncalls, nm, reads, handles, bt, pkg>>

---------------------------------------------------------------------------
(* meerschaum.utils.packages: virtual environments and their locks *)

Venvs == {"mrsm", "plugin"}

\* no thread has called into the module.  Of a thread: op (the function it
\* called), pc (where it is), ret (where the activate_venv or deactivate_venv
\* it is in returns to), venv (the venv of attempt_import), arg (the venv of
\* the activate_venv or deactivate_venv it is in), names (the names still to
\* import), outcome (how its call ended), calls (the calls it made)
PyIdle ==
    [pc |-> "idle", ret |-> "done", op |-> "none", venv |-> "none",
     arg |-> "none", names |-> 0, outcome |-> "none", calls |-> 0]

\* lines 20-23: an RLock nobody holds
FreeLock == [owner |-> 0, count |-> 0]

\* lines 19-23
PkgInit ==
    /\ py = [t \in Threads |-> PyIdle]
    /\ _locks = [l \in {"active_venvs", "sys.path"} |-> FreeLock]
    /\ active_venvs = {}
    /\ sys_path = <<>>

\* venv_target_path, lines 1189-1216: the site-packages directory of the venv
TargetPath(venv) == <<"venvs", venv, "lib", "site-packages">>

\* RLock.acquire by t: waits while another thread holds the lock
Acquire(l, t) ==
    /\ _locks[l].owner \in {0, t}
    /\ _locks' = [_locks EXCEPT ![l] = [owner |-> t, count |-> @.count + 1]]

\* RLock.release by the thread that holds the lock
Release(l, t) ==
    _locks' = [_locks EXCEPT ![l] =
        IF @.count = 1 THEN FreeLock ELSE [@ EXCEPT !.count = @ - 1]]

\* the thread may call a function of the module
CanCall(t) ==
    /\ py[t].pc \in {"idle", "done"}
    /\ py[t].outcome \in {"none", "returned"}
    /\ py[t].calls < MaxPyCalls

\* activate_venv or deactivate_venv returns to its caller
Returned(c) ==
    [c EXCEPT !.pc = c.ret, !.ret = "done",
              !.outcome = IF c.ret = "done" THEN "returned" ELSE @]

\* an exception leaves every frame of the thread: nothing handles it
Raises(c, e) == [c EXCEPT !.pc = "done", !.ret = "done", !.outcome = e]

\* activate_venv(venv) is called and returns to ret
CallActivate(c, venv, ret) == [c EXCEPT !.pc = "act_test", !.arg = venv, !.ret = ret]

\* deactivate_venv(venv) is called and returns to ret
CallDeactivate(c, venv, ret) == [c EXCEPT !.pc = "deact_test", !.arg = venv, !.ret = ret]

\* a thread calls activate_venv(venv)
PyActivate(t, venv) ==
    /\ CanCall(t)
    /\ py' = [py EXCEPT ![t] =
            CallActivate([@ EXCEPT !.op = "activate_venv", !.outcome = "none",
                                   !.calls = @ + 1], venv, "done")]
    /\ UNCHANGED <<_locks, active_venvs, sys_path, rest>>

\* a thread calls deactivate_venv(venv)
PyDeactivate(t, venv) ==
    /\ CanCall(t)
    /\ py' = [py EXCEPT ![t] =
            CallDeactivate([@ EXCEPT !.op = "deactivate_venv", !.outcome = "none",
                                     !.calls = @ + 1], venv, "done")]
    /\ UNCHANGED <<_locks, active_venvs, sys_path, rest>>

\* a thread calls attempt_import(*names, venv = venv) with n names
PyAttemptImport(t, venv, n) ==
    /\ CanCall(t)
    /\ py' = [py EXCEPT ![t] =
            [@ EXCEPT !.op = "attempt_import", !.outcome = "none", !.calls = @ + 1,
                      !.pc = "ai_acquire", !.venv = venv, !.names = n]]
    /\ UNCHANGED <<_locks, active_venvs, sys_path, rest>>

\* activate_venv, line 413
ActTest(t) ==
    /\ py[t].pc = "act_test"
    /\ py' = [py EXCEPT ![t] =
            IF py[t].arg \in active_venvs THEN Returned(@) ELSE [@ EXCEPT !.pc = "act_setup"]]
    /\ UNCHANGED <<_locks, active_venvs, sys_path, rest>>

\* lines 415-452: virtualenv or venv is imported and the venv is made;
\* sys.exit(1) at line 436 when neither can be imported
ActSetup(t) ==
    /\ py[t].pc = "act_setup"
    /\ \E ok \in BOOLEAN :
        py' = [py EXCEPT ![t] =
            IF ok THEN [@ EXCEPT !.pc = "act_acquire"] ELSE Raises(@, "SystemExit")]
    /\ UNCHANGED <<_locks, active_venvs, sys_path, rest>>

\* line 458
ActAcquire(t) ==
    /\ py[t].pc = "act_acquire"
    /\ Acquire("active_venvs", t)
    /\ py' = [py EXCEPT ![t].pc = "act_add"]
    /\ UNCHANGED <<active_venvs, sys_path, rest>>

\* line 459
ActAdd(t) ==
    /\ py[t].pc = "act_add"
    /\ active_venvs' = active_venvs \cup {py[t].arg}
    /\ py' = [py EXCEPT ![t].pc = "act_release"]
    /\ UNCHANGED <<_locks, sys_path, rest>>

\* lines 462-464
ActRelease(t) ==
    /\ py[t].pc = "act_release"
    /\ Release("active_venvs", t)
    /\ py' = [py EXCEPT ![t].pc = "act_insert"]
    /\ UNCHANGED <<active_venvs, sys_path, rest>>

\* lines 468-474: venv_target_path returns the target, which is put first on
\* sys.path unless it is there, or it calls sys.exit(1) (lines 1196, 1212)
ActInsert(t) ==
    /\ py[t].pc = "act_insert"
    /\ \E ok \in BOOLEAN :
        IF ok
        THEN LET target == TargetPath(py[t].arg)
             IN  /\ sys_path' = IF \E i \in DOMAIN sys_path : sys_path[i] = target
                                THEN sys_path ELSE <<target>> \o sys_path
                 /\ py' = [py EXCEPT ![t] = Returned(@)]
        ELSE /\ py' = [py EXCEPT ![t] = Raises(@, "SystemExit")]
             /\ UNCHANGED sys_path
    /\ UNCHANGED <<_locks, active_venvs, rest>>

\* deactivate_venv, line 385
DeactTest(t) ==
    /\ py[t].pc = "deact_test"
    /\ py' = [py EXCEPT ![t].pc =
            IF py[t].arg \in active_venvs THEN "deact_acquire" ELSE "deact_target"]
    /\ UNCHANGED <<_locks, active_venvs, sys_path, rest>>

\* line 386
DeactAcquire(t) ==
    /\ py[t].pc = "deact_acquire"
    /\ Acquire("active_venvs", t)
    /\ py' = [py EXCEPT ![t].pc = "deact_remove"]
    /\ UNCHANGED <<active_venvs, sys_path, rest>>

\* line 387: set.remove raises KeyError for a venv that is not in the set
DeactRemove(t) ==
    /\ py[t].pc = "deact_remove"
    /\ IF py[t].arg \in active_venvs
       THEN /\ active_venvs' = active_venvs \ {py[t].arg}
            /\ py' = [py EXCEPT ![t].pc = "deact_release"]
       ELSE /\ py' = [py EXCEPT ![t] = Raises(@, "KeyError")]
            /\ UNCHANGED active_venvs
    /\ UNCHANGED <<_locks, sys_path, rest>>

\* line 388
DeactRelease(t) ==
    /\ py[t].pc = "deact_release"
    /\ Release("active_venvs", t)
    /\ py' = [py EXCEPT ![t].pc = "deact_target"]
    /\ UNCHANGED <<active_venvs, sys_path, rest>>

\* lines 390-393: venv_target_path returns the target or calls sys.exit(1)
DeactTarget(t) ==
    /\ py[t].pc = "deact_target"
    /\ \E ok \in BOOLEAN :
        py' = [py EXCEPT ![t] =
            IF ok THEN [@ EXCEPT !.pc = "deact_acquire_sys"] ELSE Raises(@, "SystemExit")]
    /\ UNCHANGED <<_locks, active_venvs, sys_path, rest>>

\* line 394
DeactAcquireSys(t) ==
    /\ py[t].pc = "deact_acquire_sys"
    /\ Acquire("sys.path", t)
    /\ py' = [py EXCEPT ![t].pc = "deact_remove_sys"]
    /\ UNCHANGED <<active_venvs, sys_path, rest>>

\* lines 395-396: list.remove takes the first occurrence away
DeactRemoveSys(t) ==
    /\ py[t].pc = "deact_remove_sys"
    /\ LET target == TargetPath(py[t].arg)
           at == {i \in DOMAIN sys_path : sys_path[i] = target}
       IN  sys_path' = IF at = {} THEN sys_path
                       ELSE [i \in 1..(Len(sys_path) - 1) |->
                                IF i < Min(at) THEN sys_path[i] ELSE sys_path[i + 1]]
    /\ py' = [py EXCEPT ![t].pc = "deact_release_sys"]
    /\ UNCHANGED <<_locks, active_venvs, rest>>

\* lines 397-402
DeactReleaseSys(t) ==
    /\ py[t].pc = "deact_release_sys"
    /\ Release("sys.path", t)
    /\ py' = [py EXCEPT ![t] = Returned(@)]
    /\ UNCHANGED <<active_venvs, sys_path, rest>>

\* attempt_import, lines 802-804 (venv is not None): the lock is taken and
\* activate_venv(venv) is called
AiAcquire(t) ==
    /\ py[t].pc = "ai_acquire"
    /\ Acquire("sys.path", t)
    /\ py' = [py EXCEPT ![t] = CallActivate(@, py[t].venv, "ai_loop")]
    /\ UNCHANGED <<active_venvs, sys_path, rest>>

\* lines 830-833 and 896: for the next name activate_venv() is called, which
\* is activate_venv('mrsm'); after the last name the loop is left
AiLoop(t) ==
    /\ py[t].pc = "ai_loop"
    /\ py' = [py EXCEPT ![t] =
            IF py[t].names = 0 THEN [@ EXCEPT !.pc = "ai_release"]
            ELSE CallActivate(@, "mrsm", "ai_find")]
    /\ UNCHANGED <<_locks, active_venvs, sys_path, rest>>

\* lines 834-858 with precheck = True: venv_contains_package looks the
\* package up in venv_target_path(venv), which may call sys.exit(1)
AiFind(t) ==
    /\ py[t].pc = "ai_find"
    /\ \E found \in {"found", "missing", "exit"} :
        py' = [py EXCEPT ![t] =
            IF found = "exit" THEN Raises(@, "SystemExit")
            ELSE IF found = "found" THEN [@ EXCEPT !.pc = "ai_do_import"]
            ELSE [@ EXCEPT !.pc = "ai_install"]]
    /\ UNCHANGED <<_locks, active_venvs, sys_path, rest>>

\* lines 860-869 with install = True: pip_install, which activates the venv
\* (lines 553-555, 573-574) and does not deactivate it
AiInstall(t) ==
    /\ py[t].pc = "ai_install"
    /\ py' = [py EXCEPT ![t] = CallActivate(@, py[t].venv, "ai_pip")]
    /\ UNCHANGED <<_locks, active_venvs, sys_path, rest>>

\* pip_install from line 576 on: pip installs the package or fails, or
\* sys.exit(1) is called (line 572, or venv_target_path at line 597)
AiPip(t) ==
    /\ py[t].pc = "ai_pip"
    /\ \E installed \in {"yes", "no", "exit"} :
        py' = [py EXCEPT ![t] =
            IF installed = "exit" THEN Raises(@, "SystemExit")
            ELSE [@ EXCEPT !.pc = "ai_do_import"]]
    /\ UNCHANGED <<_locks, active_venvs, sys_path, rest>>

\* do_import, lines 811-812
AiDoImport(t) ==
    /\ py[t].pc = "ai_do_import"
    /\ py' = [py EXCEPT ![t] = CallActivate(@, py[t].venv, "ai_import")]
    /\ UNCHANGED <<_locks, active_venvs, sys_path, rest>>

\* do_import, lines 813-826: the import, whose Exception is handled, and
\* deactivate_venv(venv)
AiImport(t) ==
    /\ py[t].pc = "ai_import"
    /\ py' = [py EXCEPT ![t] = CallDeactivate(@, py[t].venv, "ai_imported")]
    /\ UNCHANGED <<_locks, active_venvs, sys_path, rest>>

\* lines 827 and 893: the module is appended
AiImported(t) ==
    /\ py[t].pc = "ai_imported"
    /\ py' = [py EXCEPT ![t].pc = "ai_loop", ![t].names = @ - 1]
    /\ UNCHANGED <<_locks, active_venvs, sys_path, rest>>

\* lines 897-900 with deactivate = True: the lock is released and
\* deactivate_venv(venv) is called; attempt_import returns after it
AiRelease(t) ==
    /\ py[t].pc = "ai_release"
    /\ Release("sys.path", t)
    /\ py' = [py EXCEPT ![t] = CallDeactivate(@, py[t].venv, "done")]
    /\ UNCHANGED <<active_venvs, sys_path, rest>>

---------------------------------------------------------------------------
(* Specifications *)

EmptyTable == [exists |-> FALSE, rows |-> <<>>]

\* the Pipes of the threads: one identity
InitPipes ==
    \E conn \in ConnTypes, inst \in InstKeys, dtcol \in BOOLEAN :
        pipe = [p \in Threads |-> NewPipe(SqlKeys, CpuKey, None, conn, inst, dtcol)]

InitStoreNm ==
    /\ sh = NotRun(<<>>)
    /\ PkgInit
    /\ call = [p \in Threads |-> Idle]
    /\ tables = [k \in SqlConns |-> [n \in {StrName(pipe[p]) : p \in Threads} |-> EmptyTable]]
    /\ registry = [k \in SqlConns |-> [n \in {Identity(pipe[p]) : p \in Threads} |-> FALSE]]
    /\ ncalls = 0
    /\ reads = [p \in Threads |-> NotRead]
    /\ handles = [p \in Threads |-> NotGot]
    /\ bt = [p \in Threads |-> NotCalled]

InitStore == InitStoreNm /\ nm = <<>>

Init == InitPipes /\ InitStore /\ threads = {1}

ConcInit == InitPipes /\ InitStore /\ threads = Threads

Next ==
    \/ \E p \in threads, rows \in DataFrames : SyncCall(p, FALSE, rows)
    \/ \E p \in threads : SyncCall(p, TRUE, <<>>)
    \/ \E p \in threads : FetchRows(p)
    \/ \E p \in threads : FetchNone(p)
    \/ \E p \in threads : FetchRaises(p)
    \/ \E p \in threads : InstanceNone(p)
    \/ \E p \in threads : InstanceApi(p)
    \/ \E p \in threads : InstanceSql(p)
    \/ \E p \in threads : Id(p)
    \/ \E p \in threads : Register(p)
    \/ \E p \in threads : NoRows(p)
    \/ \E p \in threads : Exists(p)
    \/ \E p \in threads : CreateTable(p)
    \/ \E p \in threads : CreateIndices(p)
    \/ \E p \in threads : BeginRaises(p)
    \/ \E p \in threads : Backtrack(p)
    \/ \E p \in threads : AppendNew(p)

\* one thread syncs the pipe again and again
Spec == Init /\ [][Next]_vars

\* two threads sync the same pipe
ConcSpec == ConcInit /\ [][Next]_vars

\* the Pipes of the behaviours that read sync_time: the columns may be None
AttrInit ==
    /\ \E conn \in ConnTypes, inst \in InstKeys, cols \in BOOLEAN, dtcol \in BOOLEAN :
        /\ dtcol => cols
        /\ pipe = [p \in Threads |->
                [NewPipe(SqlKeys, CpuKey, None, conn, inst, dtcol)
                    EXCEPT !.has_columns = cols]]
    /\ InitStore
    /\ threads = {1}

AttrNext ==
    \/ \E p \in threads, rows \in DataFrames :
            ncalls < MaxAttrCalls /\ SyncCall(p, FALSE, rows)
    \/ \E p \in threads : ncalls < MaxAttrCalls /\ SyncCall(p, TRUE, <<>>)
    \/ \E p \in threads : FetchRows(p)
    \/ \E p \in threads : FetchNone(p)
    \/ \E p \in threads : FetchRaises(p)
    \/ \E p \in threads : InstanceNone(p)
    \/ \E p \in threads : InstanceApi(p)
    \/ \E p \in threads : InstanceSql(p)
    \/ \E p \in threads : Id(p)
    \/ \E p \in threads : Register(p)
    \/ \E p \in threads : NoRows(p)
    \/ \E p \in threads : Exists(p)
    \/ \E p \in threads : CreateTable(p)
    \/ \E p \in threads : CreateIndices(p)
    \/ \E p \in threads : BeginRaises(p)
    \/ \E p \in threads : Backtrack(p)
    \/ \E p \in threads : AppendNew(p)
    \/ \E p \in threads : SyncTimeRead(p)

\* one thread syncs the pipe and reads its sync_time
AttrSpec == AttrInit /\ [][AttrNext]_vars

CpuAKey == <<"c", "p", "u", "_", "a">>

\* two Pipes of two identities on the instance sql:main: the second thread
\* has one of two Pipes that differ from the first thread's in the metric and
\* the location
DiffInit ==
    /\ \E o \in {NewPipe(SqlKeys, CpuAKey, None, "sql", "sql:main", TRUE),
                  NewPipe(SqlKeys, MemKey, None, "sql", "sql:main", TRUE)} :
            pipe = [p \in Threads |->
                IF p = 1 THEN NewPipe(SqlKeys, CpuKey, <<"a">>, "sql", "sql:main", TRUE)
                ELSE o]
    /\ InitStore
    /\ threads = Threads

\* the steps of sync on an SQL instance for rows given by the caller
DiffNext ==
    \/ \E p \in threads, rows \in DataFrames : SyncCall(p, FALSE, rows)
    \/ \E p \in threads : InstanceSql(p)
    \/ \E p \in threads : Id(p)
    \/ \E p \in threads : Register(p)
    \/ \E p \in threads : Exists(p)
    \/ \E p \in threads : CreateTable(p)
    \/ \E p \in threads : CreateIndices(p)
    \/ \E p \in threads : Backtrack(p)
    \/ \E p \in threads : AppendNew(p)

\* two threads sync two pipes of different identities
DiffSpec == DiffInit /\ [][DiffNext]_vars

\* a Pipe on sql:main that may declare its backtrack_minutes
BtInit ==
    /\ \E dtcol \in BOOLEAN, m \in {Undeclared} \cup (0..MaxMinutes) :
        pipe = [p \in Threads |->
            [NewPipe(SqlKeys, CpuKey, None, "sql", "sql:main", dtcol)
                EXCEPT !.backtrack_minutes = m]]
    /\ InitStore
    /\ threads = {1}

BtNext ==
    \/ \E p \in threads, rows \in DataFrames :
            ncalls < MaxAttrCalls /\ SyncCall(p, FALSE, rows)
    \/ \E p \in threads : InstanceSql(p)
    \/ \E p \in threads : Id(p)
    \/ \E p \in threads : Register(p)
    \/ \E p \in threads : Exists(p)
    \/ \E p \in threads : CreateTable(p)
    \/ \E p \in threads : CreateIndices(p)
    \/ \E p \in threads : BeginRaises(p)
    \/ \E p \in threads : Backtrack(p)
    \/ \E p \in threads : AppendNew(p)
    \/ \E p \in threads, m \in 0..MaxMinutes, begin \in Begins :
            GetBacktrackData(p, m, TRUE, begin)
    \/ \E p \in threads, m \in 0..MaxMinutes : GetBacktrackData(p, m, FALSE, 0)

\* one thread syncs the pipe and calls its get_backtrack_data
BtSpec == BtInit /\ [][BtNext]_vars

\* the operations begun on the Pipe of p so far
FrameOps(p) == ncalls + reads[p].n + handles[p].n + bt[p].n

FrameNext ==
    \/ \E p \in threads, rows \in DataFrames :
            FrameOps(p) < MaxFrameOps /\ SyncCall(p, FALSE, rows)
    \/ \E p \in threads : FrameOps(p) < MaxFrameOps /\ SyncCall(p, TRUE, <<>>)
    \/ \E p \in threads : FetchRows(p)
    \/ \E p \in threads : FetchNone(p)
    \/ \E p \in threads : FetchRaises(p)
    \/ \E p \in threads : InstanceNone(p)
    \/ \E p \in threads : InstanceApi(p)
    \/ \E p \in threads : InstanceSql(p)
    \/ \E p \in threads : Id(p)
    \/ \E p \in threads : Register(p)
    \/ \E p \in threads : NoRows(p)
    \/ \E p \in threads : Exists(p)
    \/ \E p \in threads : CreateTable(p)
    \/ \E p \in threads : CreateIndices(p)
    \/ \E p \in threads : BeginRaises(p)
    \/ \E p \in threads : Backtrack(p)
    \/ \E p \in threads : AppendNew(p)
    \/ \E p \in threads : FrameOps(p) < MaxFrameOps /\ SyncTimeRead(p)
    \/ \E p \in threads : FrameOps(p) < MaxFrameOps /\ ConnectorGet(p)
    \/ \E p \in threads : FrameOps(p) < MaxFrameOps /\ InstanceConnectorGet(p)
    \/ \E p \in threads, m \in 0..MaxMinutes, begin \in Begins :
            FrameOps(p) < MaxFrameOps /\ GetBacktrackData(p, m, TRUE, begin)
    \/ \E p \in threads, m \in 0..MaxMinutes :
            FrameOps(p) < MaxFrameOps /\ GetBacktrackData(p, m, FALSE, 0)

\* one thread uses every operation of its Pipe
FrameSpec == AttrInit /\ [][FrameNext]_vars

ConnNext ==
    \/ \E p \in threads : ConnectorGet(p)
    \/ \E p \in threads : InstanceConnectorGet(p)
    \/ \E p \in threads : ConnectorsChange(p)
    \/ \E p \in threads : InstancesChange(p)

\* one thread reads the connector and the instance connector of its Pipe
\* while the connectors known to the process change
ConnSpec == Init /\ [][ConnNext]_vars

---------------------------------------------------------------------------
(* Naming: two Pipes of one identity, and their names *)

KeyChars == {"a", ":", "_"}
ConnectorKeys == (SeqsUpTo(KeyChars, MaxKey) \ {<<>>}) \cup {SqlKeys, ApiKeys}
MetricKeys == (SeqsUpTo(KeyChars \ {":"}, MaxKey) \ {<<>>}) \cup {CpuKey, MemKey}
LocationKeys == (SeqsUpTo(KeyChars \ {":"}, MaxKey) \ {<<>>}) \cup {Server1Key, None}

NameInit ==
    /\ pipe = [p \in Threads |-> NewPipe(SqlKeys, CpuKey, None, "sql", "sql:main", TRUE)]
    /\ InitStoreNm
    /\ threads = {}
    /\ \E ck \in ConnectorKeys, mk \in MetricKeys, lk \in LocationKeys,
          da \in BOOLEAN, db \in BOOLEAN :
            nm = [a |-> NewPipe(ck, mk, lk, "sql", "sql:main", da),
                  b |-> NewPipe(ck, mk, lk, "sql", "sql:main", db),
                  name_a |-> None, name_b |-> None]

\* str(a)
NameA ==
    /\ nm.name_a = None
    /\ nm' = [nm EXCEPT !.name_a = StrName(nm.a)]
    /\ UNCHANGED <<pipe, call, tables, registry, threads, ncalls, reads, handles, bt, sh, pkg>>

\* str(b)
NameB ==
    /\ nm.name_b = None
    /\ nm' = [nm EXCEPT !.name_b = StrName(nm.b)]
    /\ UNCHANGED <<pipe, call, tables, registry, threads, ncalls, reads, handles, bt, sh, pkg>>

NameNext == NameA \/ NameB

NameSpec == NameInit /\ [][NameNext]_vars

\* two Pipes of two identities, over the short keys
PairInit ==
    /\ pipe = [p \in Threads |-> NewPipe(SqlKeys, CpuKey, None, "sql", "sql:main", TRUE)]
    /\ InitStoreNm
    /\ threads = {}
    /\ \E cka \in SeqsUpTo(KeyChars, MaxKey) \ {<<>>},
          ckb \in SeqsUpTo(KeyChars, MaxKey) \ {<<>>},
          mka \in SeqsUpTo(KeyChars \ {":"}, MaxKey) \ {<<>>},
          mkb \in SeqsUpTo(KeyChars \ {":"}, MaxKey) \ {<<>>},
          lka \in (SeqsUpTo(KeyChars \ {":"}, MaxKey) \ {<<>>}) \cup {None},
          lkb \in (SeqsUpTo(KeyChars \ {":"}, MaxKey) \ {<<>>}) \cup {None} :
            /\ <<cka, mka, lka>> # <<ckb, mkb, lkb>>
            /\ nm = [a |-> NewPipe(cka, mka, lka, "sql", "sql:main", TRUE),
                     b |-> NewPipe(ckb, mkb, lkb, "sql", "sql:main", TRUE),
                     name_a |-> None, name_b |-> None]

PairSpec == PairInit /\ [][NameNext]_vars

---------------------------------------------------------------------------
(* The action bash, called once with an action list *)

BashInit ==
    /\ pipe = [p \in Threads |-> NewPipe(SqlKeys, CpuKey, None, "sql", "sql:main", TRUE)]
    /\ call = [p \in Threads |-> Idle]
    /\ tables = [k \in SqlConns |-> [n \in {StrName(pipe[p]) : p \in Threads} |-> EmptyTable]]
    /\ registry = [k \in SqlConns |-> [n \in {Identity(pipe[p]) : p \in Threads} |-> FALSE]]
    /\ ncalls = 0
    /\ reads = [p \in Threads |-> NotRead]
    /\ handles = [p \in Threads |-> NotGot]
    /\ bt = [p \in Threads |-> NotCalled]
    /\ nm = <<>>
    /\ threads = {}
    /\ PkgInit
    /\ \E action \in ActionLists : sh = NotRun(action)

BashNext == BashCheck \/ BashPopen \/ BashCommunicate

BashSpec == BashInit /\ [][BashNext]_vars

---------------------------------------------------------------------------
(* Two threads in meerschaum.utils.packages *)

VenvInit ==
    /\ pipe = [p \in Threads |-> NewPipe(SqlKeys, CpuKey, None, "sql", "sql:main", TRUE)]
    /\ InitStore
    /\ threads = Threads

VenvNext ==
    \/ \E t \in threads, venv \in Venvs : PyActivate(t, venv)
    \/ \E t \in threads, venv \in Venvs : PyDeactivate(t, venv)
    \/ \E t \in threads, venv \in Venvs, n \in 0..MaxNames : PyAttemptImport(t, venv, n)
    \/ \E t \in threads : ActTest(t)
    \/ \E t \in threads : ActSetup(t)
    \/ \E t \in threads : ActAcquire(t)
    \/ \E t \in threads : ActAdd(t)
    \/ \E t \in threads : ActRelease(t)
    \/ \E t \in threads : ActInsert(t)
    \/ \E t \in threads : DeactTest(t)
    \/ \E t \in threads : DeactAcquire(t)
    \/ \E t \in threads : DeactRemove(t)
    \/ \E t \in threads : DeactRelease(t)
    \/ \E t \in threads : DeactTarget(t)
    \/ \E t \in threads : DeactAcquireSys(t)
    \/ \E t \in threads : DeactRemoveSys(t)
    \/ \E t \in threads : DeactReleaseSys(t)
    \/ \E t \in threads : AiAcquire(t)
    \/ \E t \in threads : AiLoop(t)
    \/ \E t \in threads : AiFind(t)
    \/ \E t \in threads : AiInstall(t)
    \/ \E t \in threads : AiPip(t)
    \/ \E t \in threads : AiDoImport(t)
    \/ \E t \in threads : AiImport(t)
    \/ \E t \in threads : AiImported(t)
    \/ \E t \in threads : AiRelease(t)

\* two threads activate and deactivate venvs and import from them
VenvSpec == VenvInit /\ [][VenvNext]_vars

---------------------------------------------------------------------------
(* Construction: Pipe(connector_keys, metric_key, location_key) *)

\* the string '[None]'
NoneLiteral == <<"[", "N", "o", "n", "e", "]">>

\* MetaPipe(connector_keys, metric_key, location_key): pydantic validates the
\* three fields, each declared str without a default, so each is required
\* and None is no value for it
MetaPipeValid(connector_keys, metric_key, location_key) ==
    /\ connector_keys # None
    /\ metric_key # None
    /\ location_key # None

\* Pipe.__init__, lines 50-68: '[None]' becomes None, the three keys are set,
\* and MetaPipe is built from them; its ValidationError is not handled.
\* <<>> stands for the constructor raising, <<o>> for the Pipe o it returns
PipeInit(connector_keys, metric_key, location_key) ==
    LET lk == IF location_key = NoneLiteral THEN None ELSE location_key
    IN  IF MetaPipeValid(connector_keys, metric_key, lk)
        THEN <<NewPipe(connector_keys, metric_key, lk, "sql", "sql:main", TRUE)>>
        ELSE <<>>

\* the location_key arguments: strings, '[None]', and None (the default)
LocationArgs == {Server1Key, <<"a">>, NoneLiteral, None}

\* two constructor calls to come, each with its arguments
CtorInit ==
    /\ pipe = [p \in Threads |-> NewPipe(SqlKeys, CpuKey, None, "sql", "sql:main", TRUE)]
    /\ InitStoreNm
    /\ threads = {}
    /\ \E ck \in {SqlKeys, ApiKeys}, mk \in {CpuKey, MemKey},
          lka \in LocationArgs, lkb \in LocationArgs :
            nm = [x \in {"a", "b"} |->
                    [args |-> <<ck, mk, IF x = "a" THEN lka ELSE lkb>>,
                     state |-> "new", pipe |-> <<>>, name |-> None]]

\* x = Pipe(*args)
Construct(x) ==
    /\ nm[x].state = "new"
    /\ LET made == PipeInit(nm[x].args[1], nm[x].args[2], nm[x].args[3])
       IN  nm' = [nm EXCEPT ![x].pipe = made,
                            ![x].state = IF made = <<>> THEN "raised" ELSE "built"]
    /\ UNCHANGED <<pipe, call, tables, registry, threads, ncalls, reads, handles, bt, sh, pkg>>

\* str(x)
Str(x) ==
    /\ nm[x].state = "built"
    /\ nm[x].name = None
    /\ nm' = [nm EXCEPT ![x].name = StrName(nm[x].pipe[1])]
    /\ UNCHANGED <<pipe, call, tables, registry, threads, ncalls, reads, handles, bt, sh, pkg>>

CtorNext ==
    \/ \E x \in {"a", "b"} : Construct(x)
    \/ \E x \in {"a", "b"} : Str(x)

\* two Pipes are constructed and named
CtorSpec == CtorInit /\ [][CtorNext]_vars

---------------------------------------------------------------------------
(* Properties *)

Range(f) == {f[i] : i \in DOMAIN f}
Count(r, f) == Cardinality({i \in DOMAIN f : f[i] = r})
Distinct(f) == \A i, j \in DOMAIN f : f[i] = f[j] => i = j
Complete(f) == \A i \in DOMAIN f : \A c \in Cols : f[i][c] # NaN

\* the calls of sync on the instance connector's store
StorageCalls ==
    {"get_pipe_id", "register", "exists", "to_sql_create", "create_indices",
     "get_backtrack_data", "to_sql_append"}

\* a call that went through the local algorithm to its end, every write
\* succeeding
SyncedLocally(c) ==
    /\ c.pc = "done"
    /\ c.result = Success
    /\ c.sync_pipe = Pending
    /\ ~c.df_none
    /\ ~c.write_failed

\* C1: a sync that follows a successful sync of the same (distinct) rows
\* finds no new row, appends nothing, and leaves each of the rows stored
\* exactly once.
C1_Idempotence ==
    \A p \in threads :
        LET c == call[p]
        IN  (SyncedLocally(c) /\ c.prev_ok /\ c.prev_df = c.df /\ Distinct(c.df))
            => /\ c.new_data_df = <<>>
               /\ Table(pipe[p]).rows = c.rows0
               /\ \A r \in Range(c.df) : Count(r, Table(pipe[p]).rows) = 1

\* C2: when the stored rows (each once, all inside the window read back) and
\* the fetched rows overlap, the table after the sync holds exactly the union
\* of the stored and the fetched rows, each once.
C2_BacktrackUnion ==
    \A p \in threads :
        LET c == call[p]
            rows == Table(pipe[p]).rows
        IN  (/\ SyncedLocally(c)
             /\ Distinct(c.rows0) /\ Complete(c.rows0) /\ Distinct(c.df)
             /\ \A r \in Range(c.rows0) : r.dt >= c.begin
             /\ Range(c.rows0) \cap Range(c.df) # {})
            => /\ Range(rows) = Range(c.rows0) \cup Range(c.df)
               /\ Distinct(rows)

\* C3: whatever path a call takes, sync returns a pair (success, message).
C3_ReturnsPair ==
    \A p \in threads : call[p].pc = "done" => call[p].result.kind = "tuple"

\* the messages that tell of the missing declaration of the datetime column
DatetimeMessages == {"'datetime' must be declared in parameters:columns"}

C5_NoConnector ==
    \A p \in threads :
        LET c == call[p]
        IN  (c.pc # "idle" /\ c.arg_none /\ pipe[p].connector = "none")
            => /\ c.pc = "done"
               /\ c.result = NoConnector
               /\ c.trace = <<>>

C5_Witness ==
    \E p \in threads :
        /\ call[p].pc = "done"
        /\ call[p].arg_none
        /\ pipe[p].connector = "none"
        /\ call[p].result = NoConnector

\* C6: on an API instance sync calls nothing but fetch and sync_pipe, and a
\* call that has its rows (or None) hands them to sync_pipe, once, and
\* returns what sync_pipe returned.
C6_RemoteDelegated ==
    \A p \in threads :
        LET c == call[p]
        IN  InstType(pipe[p].instance_keys) = "api"
            => /\ Range(c.trace) \subseteq {"fetch", "sync_pipe"}
               /\ (/\ c.pc = "done"
                   /\ ~(c.arg_none /\ pipe[p].connector = "none")
                   /\ c.result.kind # "raise")
                  => /\ c.sync_pipe \in RemoteResults
                     /\ c.result = c.sync_pipe
                     /\ c.sync_pipe_args = [df_none |-> c.df_none, df |-> c.df]
                     /\ Count("sync_pipe", c.trace) = 1
                     /\ c.trace[Len(c.trace)] = "sync_pipe"

C6_Witness ==
    \E p \in threads :
        /\ InstType(pipe[p].instance_keys) = "api"
        /\ call[p].pc = "done"
        /\ ~call[p].df_none
        /\ call[p].sync_pipe = Tuple(FALSE, "Failed to sync pipe")
        /\ call[p].result = call[p].sync_pipe

\* C7: nothing serialises two syncs of one pipe: when both found the row r
\* new (neither had read it back) and both appended, r is stored twice.
C7_DoubleInsert ==
    \A r \in Rows :
        (\A p \in Threads :
            /\ SyncedLocally(call[p])
            /\ r \in Range(call[p].new_data_df)
            /\ r \notin Range(call[p].backtrack_df))
        => Count(r, Table(pipe[1]).rows) >= 2

\* both calls read the empty table before either appended, and the rows are
\* stored twice
C7_Witness ==
    /\ \A p \in Threads :
        /\ SyncedLocally(call[p])
        /\ call[p].backtrack_df = <<>>
        /\ call[p].new_data_df = call[p].df
    /\ call[1].df = call[2].df
    /\ Table(pipe[1]).rows = call[1].df \o call[2].df

\* C8: the latest timestamp stored, once there is one, never decreases, and
\* when a sync that appended rows is done it is at least what it was when the
\* sync was called.
C8_MonotonicSyncTime ==
    [][\A p \in threads :
        /\ GetSyncTime(pipe[p], tables) # NaN
            => /\ GetSyncTime(pipe'[p], tables') # NaN
               /\ GetSyncTime(pipe'[p], tables') >= GetSyncTime(pipe[p], tables)
        /\ (SyncedLocally(call'[p]) /\ pipe'[p].has_datetime)
            => GetSyncTime(pipe'[p], tables')
                    >= InstGetSyncTime([exists |-> TRUE, rows |-> call'[p].rows0])
      ]_vars

C8_Witness ==
    \E p \in threads :
        /\ SyncedLocally(call[p])
        /\ call[p].new_data_df # <<>>
        /\ InstGetSyncTime([exists |-> TRUE, rows |-> call[p].rows0]) # NaN
        /\ GetSyncTime(pipe[p], tables)
                > InstGetSyncTime([exists |-> TRUE, rows |-> call[p].rows0])

\* C9: a sync that returns (True, "Success") of its own (not of sync_pipe)
\* has had no write (register, the table, the indices, the append) fail.
C9_WriteFailureReported ==
    \A p \in threads :
        (call[p].pc = "done" /\ call[p].result = Success /\ call[p].sync_pipe = Pending)
        => ~call[p].write_failed

\* the name, character by character: connector_keys with '_' for each ':',
\* '_', metric_key, and '_' and location_key when there is one
IsCanonicalName(name, ck, mk, lk) ==
    LET n1 == Len(ck)
        n2 == Len(mk)
    IN  /\ Len(name) = n1 + 1 + n2 + (IF lk # None THEN 1 + Len(lk) ELSE 0)
        /\ \A i \in 1..n1 : name[i] = IF ck[i] = ":" THEN "_" ELSE ck[i]
        /\ name[n1 + 1] = "_"
        /\ \A i \in 1..n2 : name[n1 + 1 + i] = mk[i]
        /\ lk # None => /\ name[n1 + n2 + 2] = "_"
                        /\ \A i \in 1..Len(lk) : name[n1 + n2 + 2 + i] = lk[i]

SqlMainCpuServer1 ==
    <<"s", "q", "l", "_", "m", "a", "i", "n", "_", "c", "p", "u", "_",
      "s", "e", "r", "v", "e", "r", "1">>
ApiProdMem == <<"a", "p", "i", "_", "p", "r", "o", "d", "_", "m", "e", "m">>

\* C10: the name of a Pipe is its connector_keys with '_' for every ':',
\* then '_' and metric_key, then '_' and location_key when that is not None;
\* the two examples come out as sql_main_cpu_server1 and api_prod_mem; and
\* two Pipes of one identity have one name whatever their parameters.
C10_CanonicalName ==
    LET a == nm.a
    IN  /\ nm.name_a # None =>
            /\ IsCanonicalName(nm.name_a, a.connector_keys, a.metric_key, a.location_key)
            /\ (a.connector_keys = SqlKeys /\ a.metric_key = CpuKey
                    /\ a.location_key = Server1Key) => nm.name_a = SqlMainCpuServer1
            /\ (a.connector_keys = ApiKeys /\ a.metric_key = MemKey
                    /\ a.location_key = None) => nm.name_a = ApiProdMem
        /\ (nm.name_a # None /\ nm.name_b # None) => nm.name_a = nm.name_b

C10_Witness ==
    /\ nm.name_a = ApiProdMem
    /\ nm.name_b = ApiProdMem
    /\ nm.a.location_key = None
    /\ nm.a.has_datetime # nm.b.has_datetime

\* C11: two Pipes of different identities (connector_keys, metric_key,
\* location_key) have different names, so never share a table.
C11_CollisionFree ==
    (nm.name_a # None /\ nm.name_b # None /\ Identity(nm.a) # Identity(nm.b))
    => nm.name_a # nm.name_b

Registered(o) == registry[o.instance_keys][Identity(o)]

\* C12 as claimed: a pipe on an SQL instance is registered once, in the
\* first sync that finds it unregistered: a later sync of a Pipe whose _id a
\* sync before found None (and so called register) does not call register.
C12_RegisteredOnce ==
    [][\A p \in threads :
        (call[p].pc = "id" /\ pipe[p]._id = "None") => call'[p].pc # "register"
      ]_vars

\* C12: a sync of a pipe on an SQL instance calls register only for a pipe
\* the instance does not hold (so never after a register that succeeded), at
\* most once, and does call it when get_pipe_id answered None.
C12_RegisterWhenUnregistered ==
    [][\A p \in threads :
        LET c == call'[p]
        IN  /\ (call[p].pc = "register" /\ c.pc # "register")
                => /\ ~Registered(pipe[p])
                   /\ Count("register", c.trace) = 1
            /\ (c.pc # "register" /\ Count("get_pipe_id", c.trace) = 1)
                => (Count("register", c.trace) = 1 <=> pipe'[p]._id = "None")
            /\ Count("get_pipe_id", c.trace) = 0 => Count("register", c.trace) = 0
      ]_vars

\* the pipe is registered, and the third sync asked for the id and did not
\* register
C12_Witness ==
    \E p \in threads :
        /\ ncalls = MaxCalls
        /\ call[p].pc = "done"
        /\ InstType(pipe[p].instance_keys) = "sql"
        /\ Registered(pipe[p])
        /\ pipe[p]._id = "id"
        /\ Count("get_pipe_id", call[p].trace) = 1
        /\ Count("register", call[p].trace) = 0

\* the calls of sync that touch the pipe's table
TableCalls ==
    {"exists", "to_sql_create", "create_indices", "get_backtrack_data", "to_sql_append"}

\* a call on an SQL instance whose fetch has yielded None
FetchedNone(p) ==
    /\ InstType(pipe[p].instance_keys) = "sql"
    /\ call[p].df_none
    /\ Count("fetch", call[p].trace) = 1
    /\ call[p].result # Raised("fetch")

\* C13: when fetch yields no rows and the source is not mqtt, sync (on an
\* SQL instance) makes no call on the pipe's table, leaves the table as it
\* was, and returns None: neither a success nor a failure pair.
C13_NoRowsNoWrite ==
    \A p \in threads :
        (FetchedNone(p) /\ pipe[p].connector # "mqtt")
        => /\ Range(call[p].trace) \cap TableCalls = {}
           /\ Table(pipe[p]).rows = call[p].rows0
           /\ call[p].pc = "done" => call[p].result = ReturnedNone

C13_Witness ==
    \E p \in threads :
        /\ FetchedNone(p)
        /\ pipe[p].connector = "sql"
        /\ call[p].pc = "done"
        /\ call[p].result = ReturnedNone
        /\ Count("register", call[p].trace) = 1
        /\ ~Table(pipe[p]).exists

\* C14: when the fetch of an mqtt source yields no rows, sync (on an SQL
\* instance) returns (True, "Success"), whether it had to register the pipe
\* or not, makes no call on the pipe's table and leaves the table as it was.
C14_MqttNoRowsSuccess ==
    \A p \in threads :
        (FetchedNone(p) /\ pipe[p].connector = "mqtt")
        => /\ Range(call[p].trace) \cap TableCalls = {}
           /\ Table(pipe[p]).rows = call[p].rows0
           /\ call[p].pc = "done" => call[p].result = Success

\* the pipe was registered before the call
C14_Witness ==
    \E p \in threads :
        /\ FetchedNone(p)
        /\ pipe[p].connector = "mqtt"
        /\ call[p].pc = "done"
        /\ call[p].result = Success
        /\ Count("register", call[p].trace) = 0
        /\ Registered(pipe[p])
        /\ ~Table(pipe[p]).exists

\* C15: a read of sync_time (and so get_sync_time) of a pipe whose columns
\* are None or do not hold 'datetime' returns None, does not raise, does not
\* call get_sync_time of the instance connector, and caches nothing.
C15_SyncTimeWithoutDatetime ==
    \A p \in threads :
        (reads[p].n > 0 /\ ~(pipe[p].has_columns /\ pipe[p].has_datetime))
        => /\ reads[p].value = NaN
           /\ ~reads[p].raised
           /\ ~reads[p].asked
           /\ ~reads[p].cached
           /\ pipe[p]._sync_time = NaN

\* the columns are None, a sync has created the table of the pipe, and
\* sync_time was read twice
C15_Witness ==
    \E p \in threads :
        /\ reads[p].n = MaxReads
        /\ ~pipe[p].has_columns
        /\ InstType(pipe[p].instance_keys) = "sql"
        /\ Table(pipe[p]).exists
        /\ reads[p].value = NaN
        /\ ~reads[p].asked

Merged(c) == Count("get_backtrack_data", c.trace) = 1

\* C17: the new rows are exactly the fetched rows, in their order, whose
\* tuple of values is the tuple of no row read back, at whatever position.
C17_RowwiseMerge ==
    \A p \in threads :
        LET c == call[p]
        IN  Merged(c) =>
                c.new_data_df = SelectSeq(c.df, LAMBDA r : r \notin Range(c.backtrack_df))

\* C18: every row sync appends is, field for field, one of the fetched rows.
C18_AppendedAreFetched ==
    \A p \in threads :
        LET c == call[p]
        IN  /\ Merged(c) => Range(c.new_data_df) \subseteq Range(c.df)
            /\ (SyncedLocally(c) /\ Len(Table(pipe[p]).rows) >= Len(c.rows0))
                => \A i \in (Len(c.rows0) + 1)..Len(Table(pipe[p]).rows) :
                        Table(pipe[p]).rows[i] \in Range(c.df)

\* begin is a whole minute, earlier than every timestamp of df, and more
\* than one minute and at most two before the oldest of them
BeginWithin(begin, df) ==
    LET oldest == Min({df[i].dt : i \in DOMAIN df})
    IN  /\ begin % TicksPerMinute = 0
        /\ \A i \in DOMAIN df : begin < df[i].dt
        /\ oldest - 2 * TicksPerMinute < begin
        /\ begin <= oldest - TicksPerMinute

\* C19: the begin of the window a sync reads back is the whole minute at or
\* before the oldest fetched timestamp, less one minute: a whole minute,
\* earlier than every fetched timestamp, with oldest - 2 min < begin <=
\* oldest - 1 min.
C19_BeginWindow ==
    \A p \in threads : Merged(call[p]) => BeginWithin(call[p].begin, call[p].df)

\* two rows, the older one last, in the first minute
C19_Witness ==
    \E p \in threads :
        /\ Merged(call[p])
        /\ Len(call[p].df) = 2
        /\ call[p].df[1].dt > call[p].df[2].dt
        /\ call[p].begin = 0 - TicksPerMinute

\* C20: over the syncs of one pipe, one after the other, the table and its
\* indices are created at most once: only in a sync whose exists call found
\* no table, and never for a table that is there (the tables start absent,
\* so a table that is there was created by a sync before); such a sync goes
\* from exists to the read back.
C20_CreatedOnce ==
    [][\A p \in threads :
        /\ (call[p].pc = "create" /\ call'[p].pc = "indices")
            => /\ ~Table(pipe[p]).exists
               /\ call[p].trace[Len(call[p].trace)] = "exists"
        /\ (call[p].pc = "rows" /\ call'[p].pc = "create")
            => ~Table(pipe[p]).exists
      ]_vars

\* C21: exists asks the pipe's own instance connector, where sync creates
\* the table and appends: the exists call of a sync finds the table exactly
\* when the table is there on the instance of the pipe.
C21_ExistsOnInstance ==
    [][\A p \in threads :
        (call[p].pc = "rows" /\ call'[p].pc \in {"backtrack", "create"})
        => (call'[p].pc = "backtrack" <=> Table(pipe[p]).exists)
      ]_vars

\* C22: exists returns a boolean whatever the flavor: a call whose last step
\* is exists goes on to the creation of the table or to the read back.
C22_ExistsEveryFlavor ==
    \A p \in threads :
        LET c == call[p]
        IN  (c.trace # <<>> /\ c.trace[Len(c.trace)] = "exists")
            => c.pc \in {"backtrack", "create"}

\* the steps of sync in the order of lines 30-98
StepOrder ==
    <<"fetch", "get_columns", "get_pipe_id", "register", "exists",
      "to_sql_create", "create_indices", "get_backtrack_data", "to_sql_append">>

Rank(f) == CHOOSE i \in DOMAIN StepOrder : StepOrder[i] = f

\* C23: a sync on an SQL instance makes its calls in one order, each at
\* most once: fetch (only and first when no rows are given), the datetime
\* column, the id and register, exists, the creation of the table and then
\* of its indices, the read back, the append; register only after the id was
\* asked, the creation only after exists, the append only after the read
\* back.
C23_StepOrder ==
    \A p \in threads :
        LET t == call[p].trace
            in(f) == Count(f, t) = 1
        IN  InstType(pipe[p].instance_keys) = "sql"
            => /\ Range(t) \subseteq Range(StepOrder)
               /\ \A i, j \in DOMAIN t : i < j => Rank(t[i]) < Rank(t[j])
               /\ in("fetch") <=> (call[p].arg_none /\ t # <<>>)
               /\ in("register") => in("get_pipe_id")
               /\ in("get_pipe_id") => in("get_columns")
               /\ in("to_sql_create") => in("exists")
               /\ in("create_indices") => in("to_sql_create")
               /\ in("get_backtrack_data") => in("exists")
               /\ in("to_sql_append") => in("get_backtrack_data")

\* a sync that made every call
C23_Witness ==
    \E p \in threads :
        /\ call[p].pc = "done"
        /\ call[p].trace = StepOrder

\* C24: an access of id (the id step of a sync) asks get_pipe_id while _id
\* is absent or None, and then holds what the instance answers: the id, once
\* the pipe is registered, whatever _id was; with an id in _id it asks
\* nothing and the id stays.
C24_IdRetriedUntilTruthy ==
    [][\A p \in threads :
        /\ pipe[p]._id = "id" => pipe'[p]._id = "id"
        /\ (call[p].pc = "id" /\ call'[p].pc # "id")
            => IF pipe[p]._id = "id"
               THEN call'[p].trace = call[p].trace
               ELSE /\ call'[p].trace = Append(call[p].trace, "get_pipe_id")
                    /\ pipe'[p]._id = IF Registered(pipe[p]) THEN "id" ELSE "None"
      ]_vars

\* _id held None, the pipe was registered, the next access got the id, and
\* the access after that asked nothing
C24_Witness ==
    \E p \in threads :
        /\ ncalls = MaxCalls
        /\ pipe[p]._id = "id"
        /\ call[p].pc = "done"
        /\ Count("exists", call[p].trace) = 1
        /\ Count("get_pipe_id", call[p].trace) = 0

\* a read of sync_time by thread p
ReadStep(p) == reads'[p].n = reads[p].n + 1

\* C25: a read of sync_time for which the instance answers None returns
\* None and leaves no _sync_time, and the read after a read that returned
\* None asks the instance again; after a read that returned a timestamp
\* every read returns that timestamp and does not ask the instance.
C25_SyncTimeCache ==
    [][\A p \in threads :
        ReadStep(p) =>
            /\ (reads'[p].asked /\ reads'[p].value = NaN) => pipe'[p]._sync_time = NaN
            /\ (reads[p].n > 0 /\ reads[p].asked /\ reads[p].value = NaN)
                => reads'[p].asked
            /\ (reads[p].n > 0 /\ reads[p].value # NaN)
                => /\ reads'[p].value = reads[p].value
                   /\ ~reads'[p].asked
                   /\ ~reads'[p].raised
      ]_vars

\* the instance answered None, and a later read found a timestamp
C25_Witness ==
    \E p \in threads :
        /\ reads[p].n = MaxReads
        /\ reads[p].asked
        /\ reads[p].value # NaN
        /\ InstType(pipe[p].instance_keys) = "sql"

\* C26: sync_time is the latest timestamp stored: a read of sync_time that
\* follows a successful sync which appended a row later than every row
\* stored before returns the timestamp of that row.
C26_SyncTimeIsLatest ==
    [][\A p \in threads :
        LET c == call[p]
            newest == InstGetSyncTime([exists |-> TRUE, rows |-> c.new_data_df])
        IN  (/\ ReadStep(p)
             /\ SyncedLocally(c)
             /\ newest # NaN
             /\ newest > InstGetSyncTime([exists |-> TRUE, rows |-> c.rows0]))
            => reads'[p].value = newest
      ]_vars

\* C27: a read of connector or instance_connector whose keys do not resolve
\* returns None and keeps nothing, and the read after a read that returned
\* None has the keys parsed again; after a read that returned a handle every
\* read returns that handle without a parse, whatever the keys resolve to by
\* then.
C27_HandleCache ==
    [][\A p \in threads : \A attr \in {"connector", "instance_connector"} :
        LET last == handles[p][attr]
            got == handles'[p][attr]
            kept == IF attr = "connector" THEN pipe'[p]._connector
                    ELSE pipe'[p]._instance_connector
        IN  (handles'[p].n = handles[p].n + 1 /\ handles'[p].attr = attr)
            => /\ got.value # "unset"
               /\ got.value = "none" => kept = "unset"
               /\ got.value # "none" => kept = got.value
               /\ last.value = "none" => got.parsed
               /\ last.value \notin {"none", "unset"}
                    => (got.value = last.value /\ ~got.parsed)
      ]_vars

\* the keys of the instance resolved to nothing, then to sql:main, and no
\* more since: the property returned None, then the handle, and the handle
\* again
C27_Witness ==
    \E p \in threads :
        /\ handles[p].n = MaxGets
        /\ handles[p].attr = "instance_connector"
        /\ handles[p].instance_connector = [value |-> "sql:main", parsed |-> FALSE]
        /\ handles[p].connector.value = "unset"
        /\ pipe[p].instance_keys = "none"

\* C28: a sync of a pipe whose instance connector is None returns a failure
\* pair, whether the rows are given or fetched.
C28_NoInstanceFails ==
    \A p \in threads :
        (InstType(pipe[p].instance_keys) = "none" /\ call[p].pc = "done")
        => /\ call[p].result.kind = "tuple"
           /\ ~call[p].result.ok

\* C29: a sync that is given rows never calls fetch and goes on to the steps
\* on the instance whatever the connector of the source is; a sync that is
\* given none, on a pipe whose connector resolves, calls fetch once, first.
C29_FetchOnlyWithoutRows ==
    \A p \in threads :
        LET c == call[p]
        IN  /\ (c.pc # "idle" /\ ~c.arg_none)
                => /\ Count("fetch", c.trace) = 0
                   /\ c.result # NoConnector
                   /\ (c.pc = "done" /\ InstType(pipe[p].instance_keys) # "none")
                        => c.trace # <<>>
            /\ (c.pc \notin {"idle", "fetch"} /\ c.arg_none /\ pipe[p].connector # "none")
                => /\ Count("fetch", c.trace) = 1
                   /\ c.trace[1] = "fetch"

\* rows were given to a sync of a pipe without a connector, and are stored
C29_Witness ==
    \E p \in threads :
        /\ pipe[p].connector = "none"
        /\ SyncedLocally(call[p])
        /\ ~call[p].arg_none
        /\ call[p].new_data_df = call[p].df
        /\ Table(pipe[p]).rows = call[p].df

\* a call on an SQL instance that ended without success as its fetch
\* yielded None
EndedWithoutRows(p) ==
    /\ FetchedNone(p)
    /\ pipe[p].connector # "mqtt"
    /\ call[p].pc = "done"

\* C30 as claimed: a pipe that was not registered (get_pipe_id answered
\* None) when a sync was called that ended without success as its fetch
\* yielded None, is not registered after it.
C30_RegistrationUnchanged ==
    \A p \in threads :
        (EndedWithoutRows(p) /\ pipe[p]._id = "None" /\ Count("get_pipe_id", call[p].trace) = 1)
        => ~Registered(pipe[p])

\* C30: a sync that ended without success as its fetch yielded None has
\* called register exactly when get_pipe_id answered None, before it looked
\* at the rows: the pipe that was not registered is registered after it,
\* unless register failed; its table is as it was.
C30_RegisteredBeforeRows ==
    \A p \in threads :
        LET c == call[p]
        IN  (EndedWithoutRows(p) /\ Count("get_pipe_id", c.trace) = 1)
            => /\ Count("register", c.trace) = 1 <=> pipe[p]._id = "None"
               /\ (pipe[p]._id = "None" /\ ~c.write_failed) => Registered(pipe[p])
               /\ (pipe[p]._id = "None" /\ c.write_failed) => ~Registered(pipe[p])
               /\ Table(pipe[p]).rows = c.rows0

C30_Witness ==
    \E p \in threads :
        /\ EndedWithoutRows(p)
        /\ call[p].result = ReturnedNone
        /\ pipe[p]._id = "None"
        /\ Count("register", call[p].trace) = 1
        /\ Registered(pipe[p])

---------------------------------------------------------------------------
(* Pipe.get_backtrack_data *)

\* the step is a call of pipe[p].get_backtrack_data
BtCalled(p) == bt'[p].n = bt[p].n + 1

\* C31: get_backtrack_data passes a begin it is given unchanged to the
\* instance connector; only when none is given does it pass the pipe's
\* sync_time, which may be None.
C31_BeginPassedOn ==
    [][\A p \in Threads : BtCalled(p) =>
        /\ bt'[p].given =>
            /\ ~bt'[p].begin.none
            /\ bt'[p].begin.value = bt'[p].arg_begin
            /\ ~bt'[p].read
        /\ ~bt'[p].given =>
            /\ bt'[p].read
            /\ bt'[p].begin.value = bt'[p].sync_time
            /\ bt'[p].begin.none = (bt'[p].sync_time = NaN)]_vars

\* a begin was given that is not the pipe's sync_time and was passed on
C31_Witness ==
    \E p \in Threads :
        /\ bt[p].n > 0 /\ bt[p].given
        /\ Table(pipe[p]).rows # <<>>
        /\ bt[p].arg_begin # InstGetSyncTime(Table(pipe[p]))
        /\ bt[p].begin.value = bt[p].arg_begin

\* C32: the backtrack_minutes passed to the instance connector are the ones
\* the pipe declares whenever it declares them, whatever the caller passed;
\* the caller's argument is used only when the pipe declares none.
C32_DeclaredMinutesWin ==
    [][\A p \in Threads : BtCalled(p) =>
        bt'[p].backtrack_minutes =
            IF pipe[p].backtrack_minutes # Undeclared
            THEN pipe[p].backtrack_minutes ELSE bt'[p].arg_minutes]_vars

\* the caller passed other minutes than the pipe declares
C32_Witness ==
    \E p \in Threads :
        /\ bt[p].n > 0
        /\ pipe[p].backtrack_minutes # Undeclared
        /\ bt[p].arg_minutes # pipe[p].backtrack_minutes
        /\ bt[p].backtrack_minutes = pipe[p].backtrack_minutes

---------------------------------------------------------------------------
(* The rows appended *)

\* the step is the call of to_sql at lines 92-97 in the sync of p
Appends(p) == call[p].pc = "append" /\ call'[p].pc = "done"

\* C33: the rows passed to the append never hold a row whose fields are all
\* null; a sync that finds no new row still returns (True, "Success") and
\* leaves the stored rows as they were.
C33_NoNullRowAppended ==
    [][\A p \in Threads : Appends(p) =>
        LET c == call[p]
            o == pipe[p]
        IN  /\ \A i \in DOMAIN c.new_data_df :
                    \E col \in Cols : c.new_data_df[i][col] # NaN
            /\ c.new_data_df = <<>> =>
                    /\ call'[p].result = Success
                    /\ tables'[o.instance_keys][StrName(o)].rows = Table(o).rows]_vars

\* a sync of rows that are all stored already has ended
C33_Witness ==
    \E p \in threads :
        LET c == call[p]
        IN  /\ c.pc = "done" /\ c.result = Success
            /\ Count("to_sql_append", c.trace) = 1
            /\ c.df # <<>> /\ c.new_data_df = <<>>
            /\ InstType(pipe[p].instance_keys) = "sql"
            /\ Table(pipe[p]).rows # <<>>

---------------------------------------------------------------------------
(* The identity of a Pipe *)

\* C34: no operation on a Pipe (sync and its steps, get_backtrack_data, the
\* reads of connector, instance_connector, id and sync_time) changes its
\* connector_keys, metric_key or location_key; its canonical name is the
\* same before and after.
C34_IdentityUnchanged ==
    [][\A p \in Threads :
        /\ Identity(pipe'[p]) = Identity(pipe[p])
        /\ StrName(pipe'[p]) = StrName(pipe[p])]_vars

\* a sync that asked for the id and wrote rows, and a second operation that
\* set an attribute of the Pipe, have ended
C34_Witness ==
    \E p \in threads :
        /\ call[p].pc = "done"
        /\ Count("get_pipe_id", call[p].trace) = 1
        /\ Count("to_sql_append", call[p].trace) = 1
        /\ pipe[p]._id # "unset"
        /\ reads[p].n + handles[p].n + bt[p].n > 0
        /\ \/ pipe[p]._sync_time # NaN
           \/ pipe[p]._connector # "unset"
           \/ pipe[p]._instance_connector # "unset"

---------------------------------------------------------------------------
(* Construction *)

\* C35: constructing a Pipe succeeds for every identity the data model
\* allows (connector_keys and metric_key strings, location_key a string or
\* None), and a location_key '[None]' is normalised to None, so that Pipe
\* has the name of the Pipe constructed without a location.
C35_ConstructionSucceeds ==
    /\ \A x \in {"a", "b"} : nm[x].state # "raised"
    /\ \A x \in {"a", "b"} : nm[x].state = "built" =>
            nm[x].pipe[1].location_key # NoneLiteral
    /\ ( /\ nm.a.args[3] = NoneLiteral /\ nm.b.args[3] = None
         /\ nm.a.name # None /\ nm.b.name # None ) => nm.a.name = nm.b.name

---------------------------------------------------------------------------
(* The action bash *)

\* C36: for every action list, if an element is a banned command then bash
\* returns (False, "Invalid command: <element>") and spawns no subprocess; a
\* subprocess is spawned only for a list without a banned element.
C36_BannedNeverSpawned ==
    LET banned == {i \in DOMAIN sh.action : sh.action[i] \in banned_commands}
    IN  /\ banned # {} =>
            /\ sh.spawned = <<>>
            /\ sh.pc \in {"called", "done"}
            /\ sh.pc = "done" =>
                    \E i \in banned :
                        sh.result = Tuple(FALSE, InvalidCommand(sh.action[i]))
        /\ sh.spawned # <<>> => banned = {}

\* a list whose second element only is banned has been turned down
C36_Witness ==
    /\ sh.pc = "done"
    /\ Len(sh.action) = 2
    /\ sh.action[1] \notin banned_commands /\ sh.action[1] # ""
    /\ sh.action[2] \in banned_commands
    /\ sh.result = Tuple(FALSE, InvalidCommand(sh.action[2]))
    /\ sh.spawned = <<>>

---------------------------------------------------------------------------
(* Virtual environments and their locks *)

\* every thread is in, or has left, a call of deactivate_venv(venv)
BothDeactivate(venv) ==
    \A t \in Threads :
        /\ py[t].op = "deactivate_venv"
        /\ py[t].arg = venv

\* C37: when two threads call deactivate_venv at the same time for the same
\* active venv, both calls end without raising, the venv is not in
\* active_venvs afterwards, and the lock of active_venvs is held by neither.
C37_ConcurrentDeactivate ==
    \A venv \in Venvs : BothDeactivate(venv) =>
        /\ \A t \in Threads : py[t].outcome # "KeyError"
        /\ (\A t \in Threads : py[t].pc = "done") =>
                /\ venv \notin active_venvs
                /\ _locks["active_venvs"].owner = 0

\* the thread has left its call of attempt_import, by return or by exception
LeftAttemptImport(t) == py[t].op = "attempt_import" /\ py[t].pc = "done"

\* C38: attempt_import (venv not None) releases the lock of sys.path it took
\* before it is left, on every way out, a failure or exit raised by the
\* package check, the install or the import included; so no thread waits
\* for the lock for ever.
C38_LockReleasedOnExit ==
    \A t \in Threads : LeftAttemptImport(t) => _locks["sys.path"].owner # t

\* the thread is in attempt_import after line 804 and before line 898: it
\* holds the lock of sys.path and has activated its venv
HoldsActivated(t) ==
    /\ py[t].op = "attempt_import"
    /\ _locks["sys.path"].owner = t
    /\ \/ py[t].pc \in {"ai_loop", "ai_find", "ai_install", "ai_pip",
                          "ai_do_import", "ai_import", "ai_imported", "ai_release"}
       \/ py[t].ret \in {"ai_find", "ai_pip", "ai_import", "ai_imported"}

OnSysPath(venv) == \E i \in DOMAIN sys_path : sys_path[i] = TargetPath(venv)

\* C39: while a thread is in attempt_import and holds the lock of sys.path
\* for a venv it activated, the venv stays in active_venvs and its target
\* stays on sys.path; no other thread's deactivate_venv takes it away.
C39_ActiveWhileHeld ==
    [][\A t \in Threads :
        ( /\ HoldsActivated(t) /\ HoldsActivated(t)'
          /\ py[t].venv \in active_venvs /\ OnSysPath(py[t].venv) )
        => (py[t].venv \in active_venvs' /\ OnSysPath(py[t].venv)')]_vars

====
